---- MODULE Spec2Model ----
(***************************************************************************)
(* Session lifecycle of the secret-sharing CLI: the persisted credential   *)
(* store (cli/src/config.ts), the App component's login state machine and  *)
(* its polling chain (app.tsx), and the authenticated request helper       *)
(* (api/client.ts).                                                        *)
(*                                                                         *)
(* Strings that the code takes apart (JWT tokens) are sequences of ASCII   *)
(* codes; a token is named by a handle such as tExp0 and TokenText gives   *)
(* its characters.  Time is in milliseconds, as in a JS Date.              *)
(***************************************************************************)
EXTENDS Integers, Sequences, FiniteSets, TLC

(***************************************************************************)
(* Bounds of the model.                                                    *)
(***************************************************************************)
\* latest clock value (ms) the model lets the wall clock reach
MaxNowMs == 3000
\* number of login attempts (uuidv4 draws) over the whole run
MaxLogins == 2
\* requests in flight and timers pending of a SecretsScreen
MaxPending == 2
\* requests in flight of an AdminScreen
MaxAdminPending == 1

(***************************************************************************)
(* Program constants.                                                      *)
(***************************************************************************)
\* pollForToken: if (attempts >= 60)
MaxAttempts == 60
\* new Date(tokenPayload.exp * 1000)
MsPerSecond == 1000

\* clock at the first state and clock step
StartMs == MsPerSecond
TickMs == MsPerSecond

\* JS null / undefined for the token and user slots
Null == "null"

(***************************************************************************)
(* Characters, base64 and JSON, as parseJWT uses them.  A character is its *)
(* ASCII code.                                                             *)
(***************************************************************************)
\* value of a base64 character, -1 if it is none: A-Z, a-z, 0-9, "+" and "/",
\* and the url-safe "-" and "_"
B64Value(c) ==
  IF c >= 65 /\ c <= 90 THEN c - 65
  ELSE IF c >= 97 /\ c <= 122 THEN c - 71
  ELSE IF c >= 48 /\ c <= 57 THEN c + 4
  ELSE IF c = 43 \/ c = 45 THEN 62
  ELSE IF c = 47 \/ c = 95 THEN 63
  ELSE -1

\* the 6-bit values of s: characters outside the alphabet are skipped, "=" (61)
\* ends the input
RECURSIVE B64Sextets(_)
B64Sextets(s) ==
  IF s = <<>> \/ Head(s) = 61 THEN <<>>
  ELSE IF B64Value(Head(s)) < 0 THEN B64Sextets(Tail(s))
       ELSE <<B64Value(Head(s))>> \o B64Sextets(Tail(s))

\* 4 sextets give 3 bytes; a tail of 3 gives 2 bytes, of 2 gives 1, of 1 none
RECURSIVE B64Bytes(_)
B64Bytes(v) ==
  IF Len(v) >= 4
  THEN LET n == ((v[1] * 64 + v[2]) * 64 + v[3]) * 64 + v[4]
       IN  <<n \div 65536, (n \div 256) % 256, n % 256>> \o B64Bytes(SubSeq(v, 5, Len(v)))
  ELSE IF Len(v) = 3
  THEN LET n == (v[1] * 64 + v[2]) * 64 + v[3]
       IN  <<n \div 1024, (n \div 4) % 256>>
  ELSE IF Len(v) = 2
  THEN <<(v[1] * 64 + v[2]) \div 16>>
  ELSE <<>>

\* Buffer.from(payload, "base64").toString("utf-8"): the decoded bytes, which
\* are the characters of the text when they are ASCII
Base64Decode(s) == B64Bytes(B64Sextets(s))

\* token.split("."): "." is 46
RECURSIVE SplitDots(_, _)
SplitDots(s, cur) ==
  IF s = <<>> THEN <<cur>>
  ELSE IF Head(s) = 46 THEN <<cur>> \o SplitDots(Tail(s), <<>>)
       ELSE SplitDots(Tail(s), Append(cur, Head(s)))

IsDigit(c) == c >= 48 /\ c <= 57
DigitValue(c) == c - 48

\* index of the first double quote (34) of s at or after i; 0 if there is none
\* or a backslash (92) or a non-printable byte comes first
RECURSIVE NextQuote(_, _)
NextQuote(s, i) ==
  IF i > Len(s) THEN 0
  ELSE IF s[i] = 34 THEN i
  ELSE IF s[i] = 92 \/ s[i] < 32 \/ s[i] > 126 THEN 0
  ELSE NextQuote(s, i + 1)

\* index after the run of digits of s that starts at i
RECURSIVE DigitsEnd(_, _)
DigitsEnd(s, i) ==
  IF i <= Len(s) /\ IsDigit(s[i]) THEN DigitsEnd(s, i + 1) ELSE i

\* value of the digits s[i..j-1]
RECURSIVE DigitsValue(_, _, _, _)
DigitsValue(s, i, j, acc) ==
  IF i >= j THEN acc ELSE DigitsValue(s, i + 1, j, acc * 10 + DigitValue(s[i]))

JsonError == [ok |-> FALSE, members |-> {}]

\* the members "key":integer of an object, from index i of s to its closing
\* brace (125); ":" is 58, "," is 44, "-" is 45; a repeated key keeps its last
\* value
RECURSIVE ParseMembers(_, _, _)
ParseMembers(s, i, members) ==
  IF i > Len(s) \/ s[i] /= 34 THEN JsonError
  ELSE
    LET q == NextQuote(s, i + 1)
    IN
    IF q = 0 \/ q + 2 > Len(s) \/ s[q + 1] /= 58 THEN JsonError
    ELSE
      LET key == SubSeq(s, i + 1, q - 1)
          neg == s[q + 2] = 45
          d   == IF neg THEN q + 3 ELSE q + 2
          e   == DigitsEnd(s, d)
      IN
      IF e = d \/ e > Len(s) \/ (e - d > 1 /\ s[d] = 48) THEN JsonError
      ELSE
        LET n    == DigitsValue(s, d, e, 0)
            val  == IF neg THEN 0 - n ELSE n
            rest == {m \in members : m[1] /= key} \cup {<<key, val>>}
        IN
        IF s[e] = 125 /\ e = Len(s) THEN [ok |-> TRUE, members |-> rest]
        ELSE IF s[e] = 44 THEN ParseMembers(s, e + 1, rest)
        ELSE JsonError

\* JSON.parse, for texts that are an object of integer members without white
\* space ("{" is 123); every other text is a syntax error here
ParseJSON(s) ==
  IF s = <<123, 125>> THEN [ok |-> TRUE, members |-> {}]
  ELSE IF Len(s) >= 2 /\ s[1] = 123 THEN ParseMembers(s, 2, {})
  ELSE JsonError

(***************************************************************************)
(* Tokens and users of the model.                                          *)
(***************************************************************************)
Tokens ==
  {"tExp0", "tExp2", "tExp4", "tExpNeg", "tNoExp", "tEmptyObj",
   "tBadJson", "tBadB64", "tTwoParts", "tEmpty"}

\* the characters of each token; the payload each carries is in the comment
TokenText(t) ==
  \* header.eyJleHAiOjB9.sig   ({"exp":0})
  CASE t = "tExp0" ->
       <<104, 101, 97, 100, 101, 114, 46, 101, 121, 74, 108, 101, 72, 65, 105, 79, 106, 66, 57, 46, 115, 105, 103>>
  \* header.eyJleHAiOjJ9.sig   ({"exp":2})
    [] t = "tExp2" ->
       <<104, 101, 97, 100, 101, 114, 46, 101, 121, 74, 108, 101, 72, 65, 105, 79, 106, 74, 57, 46, 115, 105, 103>>
  \* header.eyJleHAiOjR9.sig   ({"exp":4})
    [] t = "tExp4" ->
       <<104, 101, 97, 100, 101, 114, 46, 101, 121, 74, 108, 101, 72, 65, 105, 79, 106, 82, 57, 46, 115, 105, 103>>
  \* header.eyJleHAiOi0xfQ.sig   ({"exp":-1})
    [] t = "tExpNeg" ->
       <<104, 101, 97, 100, 101, 114, 46, 101, 121, 74, 108, 101, 72, 65, 105, 79, 105, 48, 120, 102, 81, 46, 115, 105, 103>>
  \* header.eyJzdWIiOjF9.sig   ({"sub":1})
    [] t = "tNoExp" ->
       <<104, 101, 97, 100, 101, 114, 46, 101, 121, 74, 122, 100, 87, 73, 105, 79, 106, 70, 57, 46, 115, 105, 103>>
  \* header.e30.sig   ({})
    [] t = "tEmptyObj" ->
       <<104, 101, 97, 100, 101, 114, 46, 101, 51, 48, 46, 115, 105, 103>>
  \* header.bm9wZQ.sig   (nope)
    [] t = "tBadJson" ->
       <<104, 101, 97, 100, 101, 114, 46, 98, 109, 57, 119, 90, 81, 46, 115, 105, 103>>
  \* header.!!!!.sig   (no base64 character)
    [] t = "tBadB64" ->
       <<104, 101, 97, 100, 101, 114, 46, 33, 33, 33, 33, 46, 115, 105, 103>>
  \* header.eyJleHAiOjR9   (two parts only)
    [] t = "tTwoParts" ->
       <<104, 101, 97, 100, 101, 114, 46, 101, 121, 74, 108, 101, 72, 65, 105, 79, 106, 82, 57>>
  \* ""   (the empty string)
    [] t = "tEmpty" ->
       <<>>

Users == {"alice", "bob"}

(***************************************************************************)
(* config.ts                                                               *)
(***************************************************************************)
\* parseJWT: the payload object, or null (ok = FALSE) when the token has not
\* three parts or its payload does not parse
parseJWTText(text) ==
  LET parts == SplitDots(text, <<>>)
  IN  IF Len(parts) /= 3 THEN JsonError
      ELSE ParseJSON(Base64Decode(parts[2]))

parseJWT(t) == parseJWTText(TokenText(t))

\* tokenPayload.exp: has = FALSE for undefined
ExpOf(payload) ==
  LET key == <<101, 120, 112>>   \* "exp"
  IN  IF payload.ok /\ \E m \in payload.members : m[1] = key
      THEN [has |-> TRUE, val |-> (CHOOSE m \in payload.members : m[1] = key)[2]]
      ELSE [has |-> FALSE, val |-> 0]

\* JS truthiness of a token string: the empty string is falsy
TokenTruthy(t) == t /= Null /\ TokenText(t) /= <<>>

\* `tokenPayload && tokenPayload.exp`: an exp of 0 is falsy
ExpTruthy(payload) == ExpOf(payload).has /\ ExpOf(payload).val /= 0

\* NotExpired with the seconds of the claim compared to milliseconds
NotExpiredNoScale(payload, nowMs) == ExpOf(payload).val > nowMs

\* `expiry > new Date()`
NotExpired(payload, nowMs) == ExpOf(payload).val * MsPerSecond > nowMs

Absent == [token |-> Null, user |-> Null]

\* clearAuth up to its second write: config.delete("token") is done
clearAuthFirstWrite(st) == [st EXCEPT !.token = Null]

\* clearAuth with its second delete left out
clearAuthKeepsUser(st) == [token |-> Null, user |-> st.user]

\* clearAuth: config.delete("token"), then config.delete("user")
clearAuth(st) == [clearAuthFirstWrite(st) EXCEPT !.user = Null]

\* saveAuth up to its second write: config.set("token", token) is done
saveAuthFirstWrite(st, t) == [st EXCEPT !.token = t]

\* saveAuth with the user written only when none is stored
saveAuthKeepsStoredUser(st, t, u) ==
  [token |-> t, user |-> IF st.user = Null THEN u ELSE st.user]

\* saveAuth: config.set("token", token), then config.set("user", user)
saveAuth(st, t, u) == [saveAuthFirstWrite(st, t) EXCEPT !.user = u]

\* loadAuth with clearAuth run on every path that returns absent
loadAuthAlwaysClears(st, nowMs) ==
  IF TokenTruthy(st.token) /\ st.user /= Null
  THEN LET tokenPayload == parseJWT(st.token)
       IN  IF ExpTruthy(tokenPayload) /\ NotExpired(tokenPayload, nowMs)
           THEN [ret |-> [token |-> st.token, user |-> st.user], store |-> st]
           ELSE [ret |-> Absent, store |-> clearAuth(st)]
  ELSE [ret |-> Absent, store |-> clearAuth(st)]

\* loadAuth on the store st at time nowMs: the value returned and the store left
loadAuth(st, nowMs) ==
  IF TokenTruthy(st.token) /\ st.user /= Null
  THEN LET tokenPayload == parseJWT(st.token)
       IN  IF ExpTruthy(tokenPayload)
           THEN IF NotExpired(tokenPayload, nowMs)
                THEN [ret |-> [token |-> st.token, user |-> st.user], store |-> st]
                ELSE [ret |-> Absent, store |-> clearAuth(st)]
           ELSE [ret |-> Absent, store |-> st]
  ELSE [ret |-> Absent, store |-> st]

(***************************************************************************)
(* State.                                                                  *)
(***************************************************************************)
VARIABLES
  now,          \* wall clock, ms (new Date())
  store,        \* the conf file: [token, user], Null for a key that is not set
  running,      \* the CLI process is alive
  screen,       \* App: useState screen
  user,         \* App: useState user
  token,        \* App: useState token
  loginStatus,  \* App: useState loginStatus
  pollCount,    \* App: useState pollCount
  conts,        \* pending continuations of the login chains: the awaited open(),
                \* an awaited exchange fetch, a pending setTimeout of pollForToken;
                \* each [kind, cliToken, attempts]
  nextId,       \* the next value uuidv4() returns (every draw is fresh)
  polls,        \* exchange requests sent so far, per cliToken of this process
  menuTimers,   \* pending setTimeout(() => setScreen("menu")) callbacks
  loadResult,   \* what the latest loadAuth() call returned
  last,         \* the latest handler that ran, with its inputs
  ss,           \* the useState values of the mounted SecretsScreen
  teamsFetch,   \* the GET /teams/mine of the mounted SecretsScreen and its answer
  pend,         \* requests in flight and timers pending of the SecretsScreen
  chosen,       \* the items the user selected in the wizard run under way
  posted,       \* the POST /secrets the latest step sent, with the selections
                \* behind it
  runPosts,     \* POST /secrets requests sent in the wizard run under way
  inst,         \* the CLI processes that act on the store one conf call at a
                \* time: where each stands in its config.ts call, the values it
                \* holds, what its latest loadAuth returned and the call it
                \* completed last
  adm,          \* the useState values of the mounted AdminScreen
  admPend,      \* requests in flight of the AdminScreen
  admPosted     \* the create-user request the latest step sent, with the role
                \* the user selected

appVars ==
  <<now, store, running, screen, user, token, loginStatus, pollCount, conts,
    nextId, polls, menuTimers, loadResult, last>>

secretsVars == <<ss, teamsFetch, pend, chosen, posted, runPosts>>

storeVars == <<inst>>

adminVars == <<adm, admPend, admPosted>>

vars == <<appVars, secretsVars, storeVars, adminVars>>

\* what a persisted store can hold when the CLI starts
InitStores == {Absent} \cup {[token |-> t, user |-> "alice"] : t \in Tokens}

\* the {token, user} bodies a 2xx exchange response can carry
ServerCreds ==
  { [token |-> "tExp4", user |-> "bob"],
    [token |-> "tExp2", user |-> "alice"],
    [token |-> "tNoExp", user |-> "bob"] }

\* a 2xx body whose user object the schema of the conf store rejects (its id is
\* not a number): config.set("user", user) throws on it
RejectedCreds == { [token |-> "tExp4", user |-> "carol"] }

CliTokens == 1..MaxLogins

Event(op, id, cred) == [op |-> op, cliToken |-> id, token |-> cred.token, user |-> cred.user]

(***************************************************************************)
(* The state of the SecretsScreen component.                               *)
(***************************************************************************)
\* what the TextInput of the key step and of the value step can hold
Keys == {"", "API_KEY"}
Values == {"", "s3cret"}

\* subject_id: null of an org entry (team ids are positive)
NullId == 0

\* deleteTarget: null
NoSecret == [id |-> 0, is_creator |-> FALSE]

\* the bodies a 2xx GET /secrets can carry
SecretLists ==
  { <<[id |-> 1, is_creator |-> TRUE]>>,
    <<[id |-> 1, is_creator |-> TRUE], [id |-> 2, is_creator |-> FALSE]>> }

\* the bodies a 2xx GET /teams/mine can carry: the ids of data.teams, or no
\* teams member at all
TeamsBodies ==
  { [hasTeams |-> FALSE, teams |-> <<>>],
    [hasTeams |-> TRUE, teams |-> <<>>],
    [hasTeams |-> TRUE, teams |-> <<7, 9>>] }

\* the useState initial values
InitialState ==
  [ secrets |-> <<>>,
    loading |-> TRUE,
    error |-> Null,
    mode |-> "list",
    newKey |-> "",
    newValue |-> "",
    createStep |-> "key",
    sharingChoice |-> "private",
    grantWrite |-> FALSE,
    selectedIndex |-> 0,
    deleteTarget |-> NoSecret,
    userTeams |-> <<>> ]

NoTeamsFetch == [state |-> "none", teams |-> <<>>]
NothingPending == [secrets |-> 0, posts |-> 0, deletes |-> 0, errorTimers |-> 0]
NothingChosen == [scope |-> "none", perm |-> "none"]
NoPost ==
  [scope |-> "none", perm |-> "none", key |-> "", value |-> "", acl_entries |-> <<>>]

\* no SecretsScreen is mounted
Unmounted ==
  /\ ss = InitialState
  /\ teamsFetch = NoTeamsFetch
  /\ pend = NothingPending
  /\ chosen = NothingChosen
  /\ posted = NoPost
  /\ runPosts = 0

\* what the admin can type as email, as full name and as team name
Emails == {"", "ann@example.com"}
Names == {"", "Ann"}
TeamNames == {"", "ops"}

\* the users whose user object carries is_admin
AdminUsers == {"bob"}

\* no user / no team selected in the manage lists
NoUser == [id |-> 0, is_admin |-> FALSE]
NoTeam == [id |-> 0]

\* the users and teams a 2xx GET /users and GET /teams can carry
UsersBodies == { <<[id |-> 1, is_admin |-> FALSE], [id |-> 2, is_admin |-> TRUE]>> }
TeamsLists == { <<[id |-> 7]>> }

\* the useState initial values of AdminScreen
AdminInitialState ==
  [loading |-> FALSE, mode |-> "menu", users |-> <<>>, teams |-> <<>>,
   newUserEmail |-> "", newUserName |-> "", newUserIsAdmin |-> FALSE,
   newTeamName |-> "", step |-> 0, selectedUser |-> NoUser, selectedTeam |-> NoTeam,
   message |-> "", error |-> ""]

\* what an awaited loadData is followed by in its caller
Followups == {"none", "resetUser", "resetTeam"}

NoAdminRequests ==
  [loads |-> [f \in Followups |-> 0], userCreates |-> 0, teamCreates |-> 0,
   promotes |-> 0, userDeletes |-> 0, teamDeletes |-> 0]

\* no create-user request sent by the step
NoUserPost == [sent |-> FALSE, email |-> "", name |-> "", is_admin |-> FALSE, role |-> "none"]

\* no AdminScreen is mounted
AdminUnmounted ==
  /\ adm = AdminInitialState
  /\ admPend = NoAdminRequests
  /\ admPosted = NoUserPost

\* the CLI processes that share one store
Instances == {1, 2}

\* a process outside every config.ts call, before its first one
NoCall == [pc |-> "idle", call |-> "none", token |-> Null, user |-> Null,
           ret |-> Absent, done |-> "none"]

\* no process is inside a config.ts call
AllIdle == inst = [i \in Instances |-> NoCall]

Init ==
  /\ Unmounted
  /\ AllIdle
  /\ AdminUnmounted
  /\ now = StartMs
  /\ store \in InitStores
  /\ running = FALSE
  /\ screen = "menu"
  /\ user = Null
  /\ token = Null
  /\ loginStatus = "idle"
  /\ pollCount = 0
  /\ conts = {}
  /\ nextId = 1
  /\ polls = [i \in CliTokens |-> 0]
  /\ menuTimers = 0
  /\ loadResult = Absent
  /\ last = Event("none", 0, Absent)

\* the request counts of the chains that still have a continuation pending
Tracked(p, cs) == [i \in DOMAIN p |-> IF \E c \in cs : c.cliToken = i THEN p[i] ELSE 0]

(***************************************************************************)
(* Process start and end.                                                  *)
(***************************************************************************)
\* render(<App />) and the startup effect: loadAuth, then setToken / setUser
Startup ==
  /\ ~running
  /\ running' = TRUE
  /\ LET savedAuth == loadAuth(store, now)
     IN  /\ store' = savedAuth.store
         /\ loadResult' = savedAuth.ret
         /\ IF savedAuth.ret.token /= Null /\ savedAuth.ret.user /= Null
            THEN token' = savedAuth.ret.token /\ user' = savedAuth.ret.user
            ELSE token' = Null /\ user' = Null
  /\ screen' = "menu"
  /\ loginStatus' = "idle"
  /\ pollCount' = 0
  /\ last' = Event("startup", 0, Absent)
  /\ UNCHANGED <<secretsVars, storeVars, adminVars>>
  /\ UNCHANGED <<now, conts, nextId, polls, menuTimers>>

\* process.exit(0) from the menu, or Ctrl+C on any screen: the component state,
\* the timers and the requests in flight are gone, the conf file stays
Exit ==
  /\ running
  /\ running' = FALSE
  /\ screen' = "menu"
  /\ user' = Null
  /\ token' = Null
  /\ loginStatus' = "idle"
  /\ pollCount' = 0
  /\ conts' = {}
  /\ polls' = [i \in CliTokens |-> 0]
  /\ menuTimers' = 0
  /\ last' = Event("exit", 0, Absent)
  /\ UNCHANGED <<secretsVars, storeVars, adminVars>>
  /\ UNCHANGED <<now, store, nextId, loadResult>>

\* the wall clock advances
Tick ==
  /\ now + TickMs <= MaxNowMs
  /\ now' = now + TickMs
  /\ UNCHANGED <<secretsVars, storeVars, adminVars>>
  /\ UNCHANGED <<store, running, screen, user, token, loginStatus, pollCount,
                 conts, nextId, polls, menuTimers, loadResult, last>>

(***************************************************************************)
(* The login chain.                                                        *)
(***************************************************************************)
\* startOAuthFlow with one cliToken drawn per installation instead of per call
startOAuthFlowOneToken ==
  /\ pollCount' = 0
  /\ loginStatus' = "opening"
  /\ conts' = conts \cup {[kind |-> "open", cliToken |-> 1, attempts |-> 0]}
  /\ nextId' = 2
  /\ polls' = Tracked(polls, conts)
  /\ last' = Event("start", 1, Absent)

\* startOAuthFlow up to its await: status reset, cliToken drawn, open() called
startOAuthFlow ==
  /\ pollCount' = 0
  /\ loginStatus' = "opening"
  /\ conts' = conts \cup {[kind |-> "open", cliToken |-> nextId, attempts |-> 0]}
  /\ nextId' = nextId + 1
  /\ polls' = Tracked(polls, conts)
  /\ last' = Event("start", nextId, Absent)

\* handleSelect, item "login": offered by the menu when no user is set
SelectLogin ==
  /\ running
  /\ screen = "menu"
  /\ user = Null
  /\ nextId <= MaxLogins
  /\ screen' = "login"
  /\ startOAuthFlow
  /\ UNCHANGED <<secretsVars, storeVars, adminVars>>
  /\ UNCHANGED <<now, store, running, user, token, menuTimers, loadResult>>

\* pollForToken with the exchange request carrying a cliToken of its own
pollForTokenOtherToken(c, id, attempts) ==
  IF attempts >= MaxAttempts
  THEN /\ loginStatus' = "error"
       /\ conts' = conts \ {c}
       /\ polls' = polls
       /\ last' = Event("ceiling", id, Absent)
  ELSE /\ loginStatus' = IF c.kind = "open" THEN "polling" ELSE loginStatus
       /\ conts' = (conts \ {c}) \cup
                   {[kind |-> "fetch", cliToken |-> (id % MaxLogins) + 1, attempts |-> attempts]}
       /\ polls' = [polls EXCEPT ![(id % MaxLogins) + 1] = @ + 1]
       /\ last' = Event("poll", (id % MaxLogins) + 1, Absent)

\* pollForToken with the ceiling test attempts > 60
pollForTokenOffByOne(c, id, attempts) ==
  IF attempts > MaxAttempts
  THEN /\ loginStatus' = "error"
       /\ conts' = conts \ {c}
       /\ polls' = polls
       /\ last' = Event("ceiling", id, Absent)
  ELSE /\ loginStatus' = IF c.kind = "open" THEN "polling" ELSE loginStatus
       /\ conts' = (conts \ {c}) \cup {[kind |-> "fetch", cliToken |-> id, attempts |-> attempts]}
       /\ polls' = [polls EXCEPT ![id] = @ + 1]
       /\ last' = Event("poll", id, Absent)

\* pollForToken(cliToken, attempts) up to its await, entered from continuation c:
\* the ceiling check, else the exchange request is sent
pollForToken(c, id, attempts) ==
  IF attempts >= MaxAttempts
  THEN /\ loginStatus' = "error"
       /\ conts' = conts \ {c}
       /\ polls' = polls
       /\ last' = Event("ceiling", id, Absent)
  ELSE /\ loginStatus' = IF c.kind = "open" THEN "polling" ELSE loginStatus
       /\ conts' = (conts \ {c}) \cup {[kind |-> "fetch", cliToken |-> id, attempts |-> attempts]}
       /\ polls' = [polls EXCEPT ![id] = @ + 1]
       /\ last' = Event("poll", id, Absent)

\* await open(authUrl) resolved: setLoginStatus("polling"); pollForToken(cliToken)
OpenResolves(c) ==
  /\ running
  /\ c \in conts
  /\ c.kind = "open"
  /\ pollForToken(c, c.cliToken, 0)
  /\ UNCHANGED <<secretsVars, storeVars, adminVars>>
  /\ UNCHANGED <<now, store, running, screen, user, token, pollCount, nextId,
                 menuTimers, loadResult>>

\* OpenRejects with the failure only logged: polling starts all the same
OpenRejectsKeepsPolling(c) ==
  /\ running
  /\ c \in conts
  /\ c.kind = "open"
  /\ loginStatus' = "polling"
  /\ conts' = (conts \ {c}) \cup {[kind |-> "fetch", cliToken |-> c.cliToken, attempts |-> 0]}
  /\ polls' = [polls EXCEPT ![c.cliToken] = @ + 1]
  /\ last' = Event("openFailed", c.cliToken, Absent)
  /\ UNCHANGED <<secretsVars, storeVars, adminVars>>
  /\ UNCHANGED <<now, store, running, screen, user, token, pollCount, nextId,
                 menuTimers, loadResult>>

\* await open(authUrl) rejected: the catch of startOAuthFlow
OpenRejects(c) ==
  /\ running
  /\ c \in conts
  /\ c.kind = "open"
  /\ loginStatus' = "error"
  /\ conts' = conts \ {c}
  /\ last' = Event("openFailed", c.cliToken, Absent)
  /\ UNCHANGED <<secretsVars, storeVars, adminVars>>
  /\ UNCHANGED <<now, store, running, screen, user, token, pollCount, nextId,
                 polls, menuTimers, loadResult>>

\* the setTimeout of the not-ready branch fires: pollForToken(cliToken, attempts + 1)
PollTimerFires(c) ==
  /\ running
  /\ c \in conts
  /\ c.kind = "timer"
  /\ pollForToken(c, c.cliToken, c.attempts)
  /\ UNCHANGED <<secretsVars, storeVars, adminVars>>
  /\ UNCHANGED <<now, store, running, screen, user, token, pollCount, nextId,
                 menuTimers, loadResult>>

\* ExchangeOk without the saveAuth call
ExchangeOkNoSave(c, data) ==
  /\ running
  /\ c \in conts
  /\ c.kind = "fetch"
  /\ user' = data.user
  /\ token' = data.token
  /\ loginStatus' = "success"
  /\ menuTimers' = menuTimers + 1
  /\ conts' = conts \ {c}
  /\ last' = Event("exchangeOk", c.cliToken, data)
  /\ UNCHANGED <<secretsVars, storeVars, adminVars>>
  /\ UNCHANGED <<now, store, running, screen, pollCount, nextId, polls, loadResult>>

\* the exchange answered 2xx with {token, user}
ExchangeOk(c, data) ==
  /\ running
  /\ c \in conts
  /\ c.kind = "fetch"
  /\ user' = data.user
  /\ token' = data.token
  /\ loginStatus' = "success"
  /\ store' = saveAuth(store, data.token, data.user)
  /\ menuTimers' = menuTimers + 1
  /\ conts' = conts \ {c}
  /\ last' = Event("exchangeOk", c.cliToken, data)
  /\ UNCHANGED <<secretsVars, storeVars, adminVars>>
  /\ UNCHANGED <<now, running, screen, pollCount, nextId, polls, loadResult>>

\* the exchange answered 2xx and saveAuth threw at its second write: the token
\* is on disk, the user entry is the old one; the catch of pollForToken runs
ExchangeOkSaveThrows(c, data) ==
  /\ running
  /\ c \in conts
  /\ c.kind = "fetch"
  /\ user' = data.user
  /\ token' = data.token
  /\ store' = saveAuthFirstWrite(store, data.token)
  /\ loginStatus' = "error"
  /\ conts' = conts \ {c}
  /\ last' = Event("exchangeOkSaveThrew", c.cliToken, data)
  /\ UNCHANGED <<secretsVars, storeVars, adminVars>>
  /\ UNCHANGED <<now, running, screen, pollCount, nextId, polls, menuTimers,
                 loadResult>>

\* the exchange answered 2xx and the process was killed between the two writes
\* of saveAuth
ExchangeOkKilledInSave(c, data) ==
  /\ running
  /\ c \in conts
  /\ c.kind = "fetch"
  /\ store' = saveAuthFirstWrite(store, data.token)
  /\ running' = FALSE
  /\ screen' = "menu"
  /\ user' = Null
  /\ token' = Null
  /\ loginStatus' = "idle"
  /\ pollCount' = 0
  /\ conts' = {}
  /\ polls' = [i \in CliTokens |-> 0]
  /\ menuTimers' = 0
  /\ last' = Event("killedInSave", c.cliToken, data)
  /\ UNCHANGED <<secretsVars, storeVars, adminVars>>
  /\ UNCHANGED <<now, nextId, loadResult>>

\* ExchangeNotReady with the store cleared on every non-2xx answer
ExchangeNotReadyClears(c) ==
  /\ running
  /\ c \in conts
  /\ c.kind = "fetch"
  /\ pollCount' = c.attempts + 1
  /\ store' = clearAuth(store)
  /\ conts' = (conts \ {c}) \cup
              {[kind |-> "timer", cliToken |-> c.cliToken, attempts |-> c.attempts + 1]}
  /\ last' = Event("exchangeNotReady", c.cliToken, Absent)
  /\ UNCHANGED <<secretsVars, storeVars, adminVars>>
  /\ UNCHANGED <<now, running, screen, user, token, loginStatus, nextId,
                 polls, menuTimers, loadResult>>

\* ExchangeNotReady without the setPollCount call
ExchangeNotReadyNoCount(c) ==
  /\ running
  /\ c \in conts
  /\ c.kind = "fetch"
  /\ conts' = (conts \ {c}) \cup
              {[kind |-> "timer", cliToken |-> c.cliToken, attempts |-> c.attempts + 1]}
  /\ last' = Event("exchangeNotReady", c.cliToken, Absent)
  /\ UNCHANGED <<secretsVars, storeVars, adminVars>>
  /\ UNCHANGED <<now, store, running, screen, user, token, loginStatus, pollCount,
                 nextId, polls, menuTimers, loadResult>>

\* ExchangeNotReady with no next poll scheduled
ExchangeNotReadyNoTimer(c) ==
  /\ running
  /\ c \in conts
  /\ c.kind = "fetch"
  /\ pollCount' = c.attempts + 1
  /\ conts' = conts \ {c}
  /\ last' = Event("exchangeNotReady", c.cliToken, Absent)
  /\ UNCHANGED <<secretsVars, storeVars, adminVars>>
  /\ UNCHANGED <<now, store, running, screen, user, token, loginStatus, nextId,
                 polls, menuTimers, loadResult>>

\* ExchangeNotReady with the same attempt number handed to the next poll
ExchangeNotReadySameAttempt(c) ==
  /\ running
  /\ c \in conts
  /\ c.kind = "fetch"
  /\ pollCount' = c.attempts
  /\ conts' = (conts \ {c}) \cup
              {[kind |-> "timer", cliToken |-> c.cliToken, attempts |-> c.attempts]}
  /\ last' = Event("exchangeNotReady", c.cliToken, Absent)
  /\ UNCHANGED <<secretsVars, storeVars, adminVars>>
  /\ UNCHANGED <<now, store, running, screen, user, token, loginStatus, nextId,
                 polls, menuTimers, loadResult>>

\* the exchange answered non-2xx: count it and poll again in 2 seconds
ExchangeNotReady(c) ==
  /\ running
  /\ c \in conts
  /\ c.kind = "fetch"
  /\ pollCount' = c.attempts + 1
  /\ conts' = (conts \ {c}) \cup
              {[kind |-> "timer", cliToken |-> c.cliToken, attempts |-> c.attempts + 1]}
  /\ last' = Event("exchangeNotReady", c.cliToken, Absent)
  /\ UNCHANGED <<secretsVars, storeVars, adminVars>>
  /\ UNCHANGED <<now, store, running, screen, user, token, loginStatus, nextId,
                 polls, menuTimers, loadResult>>

\* ExchangeThrows with the error treated like a not-ready answer: poll again
ExchangeThrowsRetries(c) ==
  /\ running
  /\ c \in conts
  /\ c.kind = "fetch"
  /\ conts' = (conts \ {c}) \cup
              {[kind |-> "timer", cliToken |-> c.cliToken, attempts |-> c.attempts + 1]}
  /\ last' = Event("exchangeThrew", c.cliToken, Absent)
  /\ UNCHANGED <<secretsVars, storeVars, adminVars>>
  /\ UNCHANGED <<now, store, running, screen, user, token, loginStatus, pollCount,
                 nextId, polls, menuTimers, loadResult>>

\* the exchange request threw: the catch of pollForToken
ExchangeThrows(c) ==
  /\ running
  /\ c \in conts
  /\ c.kind = "fetch"
  /\ loginStatus' = "error"
  /\ conts' = conts \ {c}
  /\ last' = Event("exchangeThrew", c.cliToken, Absent)
  /\ UNCHANGED <<secretsVars, storeVars, adminVars>>
  /\ UNCHANGED <<now, store, running, screen, user, token, pollCount, nextId,
                 polls, menuTimers, loadResult>>

(***************************************************************************)
(* The menu and the other screens.                                         *)
(***************************************************************************)
\* a setTimeout(() => setScreen("menu")) fires
MenuTimerFires ==
  /\ running
  /\ menuTimers > 0
  /\ menuTimers' = menuTimers - 1
  /\ screen' = "menu"
  /\ UNCHANGED <<secretsVars, storeVars, adminVars>>
  /\ UNCHANGED <<now, store, running, user, token, loginStatus, pollCount, conts,
                 nextId, polls, loadResult, last>>

\* SelectLogout without the clearAuth call
SelectLogoutKeepsStore ==
  /\ running
  /\ screen = "menu"
  /\ user /= Null
  /\ screen' = "logout"
  /\ user' = Null
  /\ token' = Null
  /\ loginStatus' = "idle"
  /\ pollCount' = 0
  /\ menuTimers' = menuTimers + 1
  /\ last' = Event("logout", 0, Absent)
  /\ UNCHANGED <<secretsVars, storeVars, adminVars>>
  /\ UNCHANGED <<now, store, running, conts, nextId, polls, loadResult>>

\* handleSelect, item "logout": offered by the menu when a user is set
SelectLogout ==
  /\ running
  /\ screen = "menu"
  /\ user /= Null
  /\ screen' = "logout"
  /\ user' = Null
  /\ token' = Null
  /\ loginStatus' = "idle"
  /\ pollCount' = 0
  /\ store' = clearAuth(store)
  /\ menuTimers' = menuTimers + 1
  /\ last' = Event("logout", 0, Absent)
  /\ UNCHANGED <<secretsVars, storeVars, adminVars>>
  /\ UNCHANGED <<now, running, conts, nextId, polls, loadResult>>

\* handleSelect, item "logout", with the process killed between the two writes
\* of clearAuth
SelectLogoutKilledInClear ==
  /\ running
  /\ screen = "menu"
  /\ user /= Null
  /\ store' = clearAuthFirstWrite(store)
  /\ running' = FALSE
  /\ screen' = "menu"
  /\ user' = Null
  /\ token' = Null
  /\ loginStatus' = "idle"
  /\ pollCount' = 0
  /\ conts' = {}
  /\ polls' = [i \in CliTokens |-> 0]
  /\ menuTimers' = 0
  /\ last' = Event("killedInClear", 0, Absent)
  /\ UNCHANGED <<secretsVars, storeVars, adminVars>>
  /\ UNCHANGED <<now, nextId, loadResult>>

\* the screens that call authenticatedFetch
FetchScreens == {"teams", "profile"}

\* handleSelect, items "secrets", "teams", "profile"
SelectScreen(s) ==
  /\ running
  /\ screen = "menu"
  /\ s = "secrets" \/ user /= Null
  /\ screen' = s
  /\ UNCHANGED <<secretsVars, storeVars, adminVars>>
  /\ UNCHANGED <<now, store, running, user, token, loginStatus, pollCount, conts,
                 nextId, polls, menuTimers, loadResult, last>>

\* onBack of a screen
Back ==
  /\ running
  /\ screen \in FetchScreens \cup {"secrets"}
  /\ screen' = "menu"
  /\ UNCHANGED <<secretsVars, storeVars, adminVars>>
  /\ UNCHANGED <<now, store, running, user, token, loginStatus, pollCount, conts,
                 nextId, polls, menuTimers, loadResult, last>>

\* authenticatedFetch without the test of auth.token
authenticatedFetchUnchecked ==
  /\ running
  /\ screen \in FetchScreens
  /\ LET auth == loadAuth(store, now)
     IN  /\ store' = auth.store
         /\ loadResult' = auth.ret
         /\ last' = Event("fetch", 0, auth.ret)
  /\ UNCHANGED <<secretsVars, storeVars, adminVars>>
  /\ UNCHANGED <<now, running, screen, user, token, loginStatus, pollCount, conts,
                 nextId, polls, menuTimers>>

\* authenticatedFetch: loadAuth, then the request when a token came back
authenticatedFetch ==
  /\ running
  /\ screen \in FetchScreens
  /\ LET auth == loadAuth(store, now)
     IN  /\ store' = auth.store
         /\ loadResult' = auth.ret
         /\ last' = Event(IF auth.ret.token = Null THEN "fetchRefused" ELSE "fetch",
                          0, auth.ret)
  /\ UNCHANGED <<secretsVars, storeVars, adminVars>>
  /\ UNCHANGED <<now, running, screen, user, token, loginStatus, pollCount, conts,
                 nextId, polls, menuTimers>>

Next ==
  \/ Startup
  \/ Exit
  \/ Tick
  \/ SelectLogin
  \/ \E c \in conts : OpenResolves(c)
  \/ \E c \in conts : OpenRejects(c)
  \/ \E c \in conts : PollTimerFires(c)
  \/ \E c \in conts, data \in ServerCreds : ExchangeOk(c, data)
  \/ \E c \in conts, data \in RejectedCreds : ExchangeOkSaveThrows(c, data)
  \/ \E c \in conts, data \in ServerCreds : ExchangeOkKilledInSave(c, data)
  \/ \E c \in conts : ExchangeNotReady(c)
  \/ \E c \in conts : ExchangeThrows(c)
  \/ MenuTimerFires
  \/ SelectLogout
  \/ SelectLogoutKilledInClear
  \/ \E s \in FetchScreens \cup {"secrets"} : SelectScreen(s)
  \/ Back
  \/ authenticatedFetch

Spec == Init /\ [][Next]_vars

\* the user keeps choosing "Login with GitHub" while the menu offers it; the
\* event loop runs every continuation that is due
FairSpec ==
  /\ Spec
  /\ WF_vars(SelectLogin)
  /\ WF_vars(MenuTimerFires)
  /\ WF_vars(\E c \in conts : OpenResolves(c) \/ OpenRejects(c))
  /\ WF_vars(\E c \in conts : PollTimerFires(c))
  /\ WF_vars(\E c \in conts :
               \/ \E data \in ServerCreds : ExchangeOk(c, data)
               \/ \E data \in RejectedCreds : ExchangeOkSaveThrows(c, data)
               \/ ExchangeNotReady(c)
               \/ ExchangeThrows(c))

(***************************************************************************)
(* The SecretsScreen component, given its token prop.  Spec leaves the     *)
(* inside of the screen alone; SecretsSpec runs it under a started App.    *)
(***************************************************************************)
Mounted == running /\ screen = "secrets"

\* requests in flight and timers pending, the team fetch apart
Pending == pend.secrets + pend.posts + pend.deletes + pend.errorTimers

\* which of its returns the render function takes
Rendered(st) ==
  IF st.loading THEN "loading"
  ELSE IF st.error /= Null THEN "error"
  ELSE IF st.mode = "create" THEN st.createStep
  ELSE st.mode

\* fetchSecrets up to its await, called with state st and pd requests pending
fetchSecrets(st, pd) ==
  IF token = Null
  THEN [ss |-> [st EXCEPT !.error = "Not authenticated. Please login first.",
                          !.loading = FALSE],
        pend |-> pd]
  ELSE [ss |-> st, pend |-> [pd EXCEPT !.secrets = @ + 1]]

\* fetchUserTeams up to its await
fetchUserTeams ==
  IF token = Null THEN NoTeamsFetch ELSE [state |-> "pending", teams |-> <<>>]

\* AclEntries with an entry for the first team only
AclEntriesFirstTeam(st) ==
  IF st.sharingChoice = "team"
  THEN [i \in 1..(IF Len(st.userTeams) > 0 THEN 1 ELSE 0) |->
          [subject_type |-> "team", subject_id |-> st.userTeams[i],
           can_read |-> TRUE, can_write |-> st.grantWrite]]
  ELSE IF st.sharingChoice = "org"
  THEN <<[subject_type |-> "org", subject_id |-> NullId,
          can_read |-> TRUE, can_write |-> st.grantWrite]>>
  ELSE <<>>

\* AclEntries with the org entry followed by the entries of the teams
AclEntriesOrgAndTeams(st) ==
  IF st.sharingChoice = "team"
  THEN [i \in 1..Len(st.userTeams) |->
          [subject_type |-> "team", subject_id |-> st.userTeams[i],
           can_read |-> TRUE, can_write |-> st.grantWrite]]
  ELSE IF st.sharingChoice = "org"
  THEN <<[subject_type |-> "org", subject_id |-> NullId,
          can_read |-> TRUE, can_write |-> st.grantWrite]>>
       \o [i \in 1..Len(st.userTeams) |->
             [subject_type |-> "team", subject_id |-> st.userTeams[i],
              can_read |-> TRUE, can_write |-> st.grantWrite]]
  ELSE <<>>

\* the acl_entries createSecret builds from the state st of its render
AclEntries(st) ==
  IF st.sharingChoice = "team"
  THEN [i \in 1..Len(st.userTeams) |->
          [subject_type |-> "team", subject_id |-> st.userTeams[i],
           can_read |-> TRUE, can_write |-> st.grantWrite]]
  ELSE IF st.sharingChoice = "org"
  THEN <<[subject_type |-> "org", subject_id |-> NullId,
          can_read |-> TRUE, can_write |-> st.grantWrite]>>
  ELSE <<>>

\* createSecret up to its await, run from the render whose state is st
createSecret(st) ==
  IF token = Null
  THEN /\ posted' = NoPost
       /\ UNCHANGED <<pend, runPosts>>
  ELSE /\ pend' = [pend EXCEPT !.posts = @ + 1]
       /\ posted' = [scope |-> chosen'.scope, perm |-> chosen'.perm,
                     key |-> st.newKey, value |-> st.newValue,
                     acl_entries |-> AclEntries(st)]
       /\ runPosts' = runPosts + 1

\* handleSelect, item "secrets": the screen mounts and its effect runs
\* fetchSecrets() and fetchUserTeams()
MountSecrets ==
  /\ running
  /\ screen = "menu"
  /\ screen' = "secrets"
  /\ LET r == fetchSecrets(InitialState, NothingPending)
     IN  ss' = r.ss /\ pend' = r.pend
  /\ teamsFetch' = fetchUserTeams
  /\ chosen' = NothingChosen
  /\ posted' = NoPost
  /\ runPosts' = 0
  /\ UNCHANGED <<now, store, running, user, token, loginStatus, pollCount, conts,
                 nextId, polls, menuTimers, loadResult, last>>
  /\ UNCHANGED <<storeVars, adminVars>>

\* 'q' in list mode: onBack(); the screen unmounts, and what its requests and
\* timers do afterwards reaches no component
PressQ ==
  /\ Mounted
  /\ ss.mode = "list"
  /\ screen' = "menu"
  /\ ss' = InitialState
  /\ teamsFetch' = NoTeamsFetch
  /\ pend' = NothingPending
  /\ chosen' = NothingChosen
  /\ posted' = NoPost
  /\ runPosts' = 0
  /\ UNCHANGED <<now, store, running, user, token, loginStatus, pollCount, conts,
                 nextId, polls, menuTimers, loadResult, last>>
  /\ UNCHANGED <<storeVars, adminVars>>

\* 'c' in list mode: a wizard run starts
PressC ==
  /\ Mounted
  /\ ss.mode = "list"
  /\ ss' = [ss EXCEPT !.mode = "create", !.createStep = "key"]
  /\ chosen' = NothingChosen
  /\ runPosts' = 0
  /\ UNCHANGED <<teamsFetch, pend>>
  /\ posted' = NoPost
  /\ UNCHANGED <<appVars, storeVars, adminVars>>

\* PressD without the is_creator test
PressDAnySecret ==
  /\ Mounted
  /\ ss.mode = "list"
  /\ Len(ss.secrets) > 0
  /\ IF ss.selectedIndex < Len(ss.secrets)
     THEN /\ ss' = [ss EXCEPT !.deleteTarget = ss.secrets[ss.selectedIndex + 1],
                              !.mode = "delete"]
          /\ pend' = pend
     ELSE /\ Pending < MaxPending
          /\ ss' = [ss EXCEPT !.error = "You can only delete secrets you created"]
          /\ pend' = [pend EXCEPT !.errorTimers = @ + 1]
  /\ UNCHANGED <<teamsFetch, chosen, runPosts>>
  /\ posted' = NoPost
  /\ UNCHANGED <<appVars, storeVars, adminVars>>

\* 'd' in list mode with secrets listed
PressD ==
  /\ Mounted
  /\ ss.mode = "list"
  /\ Len(ss.secrets) > 0
  /\ IF /\ ss.selectedIndex < Len(ss.secrets)
        /\ ss.secrets[ss.selectedIndex + 1].is_creator
     THEN /\ ss' = [ss EXCEPT !.deleteTarget = ss.secrets[ss.selectedIndex + 1],
                              !.mode = "delete"]
          /\ pend' = pend
     ELSE /\ Pending < MaxPending
          /\ ss' = [ss EXCEPT !.error = "You can only delete secrets you created"]
          /\ pend' = [pend EXCEPT !.errorTimers = @ + 1]
  /\ UNCHANGED <<teamsFetch, chosen, runPosts>>
  /\ posted' = NoPost
  /\ UNCHANGED <<appVars, storeVars, adminVars>>

\* 'r' in list mode
PressR ==
  /\ Mounted
  /\ ss.mode = "list"
  /\ Pending < MaxPending
  /\ LET r == fetchSecrets([ss EXCEPT !.loading = TRUE], pend)
     IN  ss' = r.ss /\ pend' = r.pend
  /\ UNCHANGED <<teamsFetch, chosen, runPosts>>
  /\ posted' = NoPost
  /\ UNCHANGED <<appVars, storeVars, adminVars>>

\* the arrow keys in list mode
PressUp ==
  /\ Mounted
  /\ ss.mode = "list"
  /\ ss.selectedIndex > 0
  /\ ss' = [ss EXCEPT !.selectedIndex = @ - 1]
  /\ UNCHANGED <<teamsFetch, pend, chosen, runPosts>>
  /\ posted' = NoPost
  /\ UNCHANGED <<appVars, storeVars, adminVars>>

PressDown ==
  /\ Mounted
  /\ ss.mode = "list"
  /\ ss.selectedIndex < Len(ss.secrets) - 1
  /\ ss' = [ss EXCEPT !.selectedIndex = @ + 1]
  /\ UNCHANGED <<teamsFetch, pend, chosen, runPosts>>
  /\ posted' = NoPost
  /\ UNCHANGED <<appVars, storeVars, adminVars>>

\* the setTimeout(() => setError(null), 3000) of the 'd' branch fires
ErrorTimerFires ==
  /\ Mounted
  /\ pend.errorTimers > 0
  /\ ss' = [ss EXCEPT !.error = Null]
  /\ pend' = [pend EXCEPT !.errorTimers = @ - 1]
  /\ UNCHANGED <<teamsFetch, chosen, runPosts>>
  /\ posted' = NoPost
  /\ UNCHANGED <<appVars, storeVars, adminVars>>

\* the TextInput of the key step changes
TypeKey(v) ==
  /\ Mounted
  /\ Rendered(ss) = "key"
  /\ v /= ss.newKey
  /\ ss' = [ss EXCEPT !.newKey = v]
  /\ UNCHANGED <<teamsFetch, pend, chosen, runPosts>>
  /\ posted' = NoPost
  /\ UNCHANGED <<appVars, storeVars, adminVars>>

\* the TextInput of the value step changes
TypeValue(v) ==
  /\ Mounted
  /\ Rendered(ss) = "value"
  /\ v /= ss.newValue
  /\ ss' = [ss EXCEPT !.newValue = v]
  /\ UNCHANGED <<teamsFetch, pend, chosen, runPosts>>
  /\ posted' = NoPost
  /\ UNCHANGED <<appVars, storeVars, adminVars>>

\* PressEnter without the tests of newKey and newValue
PressEnterUnchecked ==
  /\ Mounted
  /\ ss.mode = "create"
  /\ \/ /\ ss.createStep = "key"
        /\ ss' = [ss EXCEPT !.createStep = "value"]
     \/ /\ ss.createStep = "value"
        /\ ss' = [ss EXCEPT !.createStep = "sharing"]
  /\ UNCHANGED <<teamsFetch, pend, chosen, runPosts>>
  /\ posted' = NoPost
  /\ UNCHANGED <<appVars, storeVars, adminVars>>

\* Enter in create mode, as useInput handles it
PressEnter ==
  /\ Mounted
  /\ ss.mode = "create"
  /\ \/ /\ ss.createStep = "key"
        /\ ss.newKey /= ""
        /\ ss' = [ss EXCEPT !.createStep = "value"]
     \/ /\ ss.createStep = "value"
        /\ ss.newValue /= ""
        /\ ss' = [ss EXCEPT !.createStep = "sharing"]
  /\ UNCHANGED <<teamsFetch, pend, chosen, runPosts>>
  /\ posted' = NoPost
  /\ UNCHANGED <<appVars, storeVars, adminVars>>
\* PressEscape with the scope and the permission left as chosen
PressEscapeKeepsScope ==
  /\ Mounted
  /\ ss.mode = "create"
  /\ ss' = [ss EXCEPT !.mode = "list", !.newKey = "", !.newValue = "",
                      !.createStep = "key"]
  /\ chosen' = NothingChosen
  /\ runPosts' = 0
  /\ posted' = NoPost
  /\ UNCHANGED <<teamsFetch, pend>>
  /\ UNCHANGED <<appVars, storeVars, adminVars>>

\* Escape in create mode
PressEscape ==
  /\ Mounted
  /\ ss.mode = "create"
  /\ ss' = [ss EXCEPT !.mode = "list", !.newKey = "", !.newValue = "",
                      !.createStep = "key", !.sharingChoice = "private",
                      !.grantWrite = FALSE]
  /\ chosen' = NothingChosen
  /\ runPosts' = 0
  /\ posted' = NoPost
  /\ UNCHANGED <<teamsFetch, pend>>
  /\ UNCHANGED <<appVars, storeVars, adminVars>>

\* sharingItems with "team" listed only when the user has teams
sharingItemsForTeams(teams) ==
  IF Len(teams) > 0 THEN {"private", "team", "org"} ELSE {"private", "org"}

\* the values of the items the SelectInput of the sharing step lists
sharingItems(teams) == {"private", "team", "org"}

\* onSelect of the sharing step: setSharingChoice, then createSecret() of this
\* render for "private", the permissions step for the others
SelectSharing(item) ==
  /\ Mounted
  /\ Rendered(ss) = "sharing"
  /\ item \in sharingItems(ss.userTeams)
  /\ Pending < MaxPending
  /\ chosen' = [scope |-> item, perm |-> "none"]
  /\ IF item = "private"
     THEN /\ ss' = [ss EXCEPT !.sharingChoice = item]
          /\ createSecret(ss)
     ELSE /\ ss' = [ss EXCEPT !.sharingChoice = item, !.createStep = "permissions"]
          /\ posted' = NoPost
          /\ UNCHANGED <<pend, runPosts>>
  /\ teamsFetch' = teamsFetch
  /\ UNCHANGED <<appVars, storeVars, adminVars>>

\* onSelect of the permissions step: setGrantWrite, then createSecret() of this
\* render
SelectPermission(item) ==
  /\ Mounted
  /\ Rendered(ss) = "permissions"
  /\ Pending < MaxPending
  /\ chosen' = [chosen EXCEPT !.perm = item]
  /\ ss' = [ss EXCEPT !.grantWrite = (item = "write")]
  /\ createSecret(ss)
  /\ teamsFetch' = teamsFetch
  /\ UNCHANGED <<appVars, storeVars, adminVars>>

\* the POST /secrets answered 2xx: the form is reset, fetchSecrets() is called
PostOk ==
  /\ Mounted
  /\ pend.posts > 0
  /\ LET r == fetchSecrets([ss EXCEPT !.newKey = "", !.newValue = "",
                                      !.sharingChoice = "private",
                                      !.grantWrite = FALSE, !.mode = "list",
                                      !.createStep = "key"],
                           [pend EXCEPT !.posts = @ - 1])
     IN  ss' = r.ss /\ pend' = r.pend
  /\ chosen' = NothingChosen
  /\ runPosts' = 0
  /\ posted' = NoPost
  /\ teamsFetch' = teamsFetch
  /\ UNCHANGED <<appVars, storeVars, adminVars>>

\* the POST /secrets answered non-2xx
PostRejected ==
  /\ Mounted
  /\ pend.posts > 0
  /\ ss' = [ss EXCEPT !.error = "[ERROR] Unable to create secret"]
  /\ pend' = [pend EXCEPT !.posts = @ - 1]
  /\ UNCHANGED <<teamsFetch, chosen, runPosts>>
  /\ posted' = NoPost
  /\ UNCHANGED <<appVars, storeVars, adminVars>>

\* the POST /secrets threw
PostThrows ==
  /\ Mounted
  /\ pend.posts > 0
  /\ ss' = [ss EXCEPT !.error = "Network error"]
  /\ pend' = [pend EXCEPT !.posts = @ - 1]
  /\ UNCHANGED <<teamsFetch, chosen, runPosts>>
  /\ posted' = NoPost
  /\ UNCHANGED <<appVars, storeVars, adminVars>>

\* the GET /secrets answered 2xx
SecretsOk(data) ==
  /\ Mounted
  /\ pend.secrets > 0
  /\ ss' = [ss EXCEPT !.secrets = data, !.loading = FALSE]
  /\ pend' = [pend EXCEPT !.secrets = @ - 1]
  /\ UNCHANGED <<teamsFetch, chosen, runPosts>>
  /\ posted' = NoPost
  /\ UNCHANGED <<appVars, storeVars, adminVars>>

\* the GET /secrets answered 401, another non-2xx status, or threw
SecretsFails(how) ==
  /\ Mounted
  /\ pend.secrets > 0
  /\ ss' = [ss EXCEPT !.loading = FALSE,
                      !.error = CASE how = "401" -> "Authentication failed. Please login again."
                                  [] how = "other" -> "[ERROR] Unable to retrieve secrets"
                                  [] how = "threw" -> "Network error. Is the backend running?"]
  /\ pend' = [pend EXCEPT !.secrets = @ - 1]
  /\ UNCHANGED <<teamsFetch, chosen, runPosts>>
  /\ posted' = NoPost
  /\ UNCHANGED <<appVars, storeVars, adminVars>>

\* the GET /teams/mine answered 2xx: setUserTeams(data.teams || [])
TeamsOk(body) ==
  /\ Mounted
  /\ teamsFetch.state = "pending"
  /\ ss' = [ss EXCEPT !.userTeams = IF body.hasTeams THEN body.teams ELSE <<>>]
  /\ teamsFetch' = [state |-> "ok", teams |-> body.teams]
  /\ UNCHANGED <<pend, chosen, runPosts>>
  /\ posted' = NoPost
  /\ UNCHANGED <<appVars, storeVars, adminVars>>

\* the GET /teams/mine answered non-2xx or threw: nothing is set
TeamsFails ==
  /\ Mounted
  /\ teamsFetch.state = "pending"
  /\ teamsFetch' = [state |-> "failed", teams |-> <<>>]
  /\ UNCHANGED <<ss, pend, chosen, runPosts>>
  /\ posted' = NoPost
  /\ UNCHANGED <<appVars, storeVars, adminVars>>

\* 'y' in delete mode with a deleteTarget: deleteSecret up to its await
PressY ==
  /\ Mounted
  /\ ss.mode = "delete"
  /\ ss.deleteTarget /= NoSecret
  /\ Pending < MaxPending
  /\ pend' = IF token = Null THEN pend ELSE [pend EXCEPT !.deletes = @ + 1]
  /\ UNCHANGED <<ss, teamsFetch, chosen, runPosts>>
  /\ posted' = NoPost
  /\ UNCHANGED <<appVars, storeVars, adminVars>>

\* 'n' or Escape in delete mode
PressN ==
  /\ Mounted
  /\ ss.mode = "delete"
  /\ ss' = [ss EXCEPT !.mode = "list", !.deleteTarget = NoSecret]
  /\ UNCHANGED <<teamsFetch, pend, chosen, runPosts>>
  /\ posted' = NoPost
  /\ UNCHANGED <<appVars, storeVars, adminVars>>

\* the DELETE answered 2xx
DeleteOk ==
  /\ Mounted
  /\ pend.deletes > 0
  /\ LET r == fetchSecrets([ss EXCEPT !.mode = "list", !.deleteTarget = NoSecret],
                           [pend EXCEPT !.deletes = @ - 1])
     IN  ss' = r.ss /\ pend' = r.pend
  /\ UNCHANGED <<teamsFetch, chosen, runPosts>>
  /\ posted' = NoPost
  /\ UNCHANGED <<appVars, storeVars, adminVars>>

\* the DELETE answered 403, another non-2xx status, or threw
DeleteFails(how) ==
  /\ Mounted
  /\ pend.deletes > 0
  /\ ss' = [ss EXCEPT !.error = CASE how = "403" -> "You can only delete secrets you created"
                                  [] how = "other" -> "[ERROR] Unable to delete secret"
                                  [] how = "threw" -> "Network error"]
  /\ pend' = [pend EXCEPT !.deletes = @ - 1]
  /\ UNCHANGED <<teamsFetch, chosen, runPosts>>
  /\ posted' = NoPost
  /\ UNCHANGED <<appVars, storeVars, adminVars>>

\* a started App on its menu, logged out or holding the Credential of its store
SecretsInit ==
  /\ Unmounted
  /\ AllIdle
  /\ AdminUnmounted
  /\ now = StartMs
  /\ running = TRUE
  /\ screen = "menu"
  /\ \/ store = Absent /\ token = Null /\ user = Null
     \/ store = [token |-> "tExp4", user |-> "bob"] /\ token = "tExp4" /\ user = "bob"
  /\ loginStatus = "idle"
  /\ pollCount = 0
  /\ conts = {}
  /\ nextId = 1
  /\ polls = [i \in CliTokens |-> 0]
  /\ menuTimers = 0
  /\ loadResult = store
  /\ last = Event("startup", 0, Absent)

SecretsNext ==
  \/ MountSecrets
  \/ PressQ
  \/ PressC
  \/ PressD
  \/ PressR
  \/ PressUp
  \/ PressDown
  \/ ErrorTimerFires
  \/ \E v \in Keys : TypeKey(v)
  \/ \E v \in Values : TypeValue(v)
  \/ PressEnter
  \/ PressEscape
  \/ \E item \in {"private", "team", "org"} : SelectSharing(item)
  \/ \E item \in {"read", "write"} : SelectPermission(item)
  \/ PostOk
  \/ PostRejected
  \/ PostThrows
  \/ \E data \in SecretLists : SecretsOk(data)
  \/ \E how \in {"401", "other", "threw"} : SecretsFails(how)
  \/ \E body \in TeamsBodies : TeamsOk(body)
  \/ TeamsFails
  \/ PressY
  \/ PressN
  \/ DeleteOk
  \/ \E how \in {"403", "other", "threw"} : DeleteFails(how)

SecretsSpec == SecretsInit /\ [][SecretsNext]_vars

(***************************************************************************)
(* Two CLI processes on one store, one conf call per step.                 *)
(***************************************************************************)
\* a config.ts step of process i touches the store and the process only
StoreFrame ==
  /\ UNCHANGED <<secretsVars, adminVars>>
  /\ UNCHANGED <<now, running, screen, user, token, loginStatus, pollCount, conts,
                 nextId, polls, menuTimers, loadResult, last>>

\* saveAuth(cred.token, cred.user), first statement: config.set("token", token)
SaveAuthSetToken(i, cred) ==
  /\ inst[i].pc = "idle"
  /\ store' = saveAuthFirstWrite(store, cred.token)
  /\ inst' = [inst EXCEPT ![i] = [@ EXCEPT !.pc = "saveUser", !.call = "saveAuth",
                                           !.token = cred.token, !.user = cred.user]]
  /\ StoreFrame

\* saveAuth, second statement: config.set("user", user)
SaveAuthSetUser(i) ==
  /\ inst[i].pc = "saveUser"
  /\ store' = [store EXCEPT !.user = inst[i].user]
  /\ inst' = [inst EXCEPT ![i] = [@ EXCEPT !.pc = "idle", !.call = "none",
                                           !.token = Null, !.user = Null,
                                           !.done = "saveAuth"]]
  /\ StoreFrame

\* clearAuth, first statement: config.delete("token"); called by a logout or by
\* a loadAuth that found the token expired
ClearAuthDeleteToken(i) ==
  /\ inst[i].pc \in {"idle", "loadExpired"}
  /\ store' = clearAuthFirstWrite(store)
  /\ inst' = [inst EXCEPT ![i] = [@ EXCEPT !.pc = "clearUser",
                                           !.call = IF @ = "loadAuth" THEN @ ELSE "clearAuth"]]
  /\ StoreFrame

\* clearAuth, second statement: config.delete("user"); a loadAuth that called
\* it then returns { token: null, user: null }
ClearAuthDeleteUser(i) ==
  /\ inst[i].pc = "clearUser"
  /\ store' = [store EXCEPT !.user = Null]
  /\ inst' = [inst EXCEPT ![i] = [@ EXCEPT !.pc = "idle", !.call = "none",
                                           !.ret = IF inst[i].call = "loadAuth" THEN Absent ELSE @,
                                           !.done = inst[i].call]]
  /\ StoreFrame

\* loadAuth, first statement: const token = config.get("token")
LoadAuthGetToken(i) ==
  /\ inst[i].pc = "idle"
  /\ inst' = [inst EXCEPT ![i] = [@ EXCEPT !.pc = "loadUser", !.call = "loadAuth",
                                           !.token = store.token]]
  /\ UNCHANGED store
  /\ StoreFrame

\* loadAuth, from const user = config.get("user") to its return or to its call
\* of clearAuth
LoadAuthGetUser(i) ==
  /\ inst[i].pc = "loadUser"
  /\ LET t == inst[i].token
         u == store.user
         tokenPayload == parseJWT(t)
         returns(r) == [inst EXCEPT ![i] = [@ EXCEPT !.pc = "idle", !.call = "none",
                                                     !.token = Null, !.ret = r,
                                                     !.done = "loadAuth"]]
     IN  inst' = IF TokenTruthy(t) /\ u /= Null
                 THEN IF ExpTruthy(tokenPayload)
                      THEN IF NotExpired(tokenPayload, now)
                           THEN returns([token |-> t, user |-> u])
                           ELSE [inst EXCEPT ![i] = [@ EXCEPT !.pc = "loadExpired",
                                                              !.token = Null]]
                      ELSE returns(Absent)
                 ELSE returns(Absent)
  /\ UNCHANGED store
  /\ StoreFrame

\* the store holds nothing or one Credential saved whole; no process is started
StoreInit ==
  /\ Unmounted
  /\ AllIdle
  /\ AdminUnmounted
  /\ now = StartMs
  /\ store \in {Absent, [token |-> "tExp2", user |-> "alice"]}
  /\ running = FALSE
  /\ screen = "menu"
  /\ user = Null
  /\ token = Null
  /\ loginStatus = "idle"
  /\ pollCount = 0
  /\ conts = {}
  /\ nextId = 1
  /\ polls = [i \in CliTokens |-> 0]
  /\ menuTimers = 0
  /\ loadResult = Absent
  /\ last = Event("none", 0, Absent)

StoreNext ==
  \/ Tick
  \/ \E i \in Instances, cred \in ServerCreds : SaveAuthSetToken(i, cred)
  \/ \E i \in Instances : SaveAuthSetUser(i)
  \/ \E i \in Instances : ClearAuthDeleteToken(i)
  \/ \E i \in Instances : ClearAuthDeleteUser(i)
  \/ \E i \in Instances : LoadAuthGetToken(i)
  \/ \E i \in Instances : LoadAuthGetUser(i)

StoreSpec == StoreInit /\ [][StoreNext]_vars

(***************************************************************************)
(* The AdminScreen component.                                              *)
(***************************************************************************)
AdminMounted == running /\ screen = "admin"

\* requests of the AdminScreen in flight
AdminPending ==
  admPend.loads["none"] + admPend.loads["resetUser"] + admPend.loads["resetTeam"]
    + admPend.userCreates + admPend.teamCreates + admPend.promotes
    + admPend.userDeletes + admPend.teamDeletes

\* which of its returns the render function of AdminScreen takes
AdminRendered(a) ==
  IF a.loading THEN "loading"
  ELSE IF a.mode = "create-user" /\ a.step = 0 THEN "email"
  ELSE IF a.mode = "create-user" /\ a.step = 1 THEN "name"
  ELSE IF a.mode = "create-user" /\ a.step = 2 THEN "role"
  ELSE IF a.mode = "create-team" THEN "create-team"
  ELSE IF a.mode = "manage-users" /\ a.selectedUser = NoUser THEN "users"
  ELSE IF a.mode = "manage-users" THEN "userActions"
  ELSE IF a.mode = "manage-teams" /\ a.selectedTeam = NoTeam THEN "teams"
  ELSE IF a.mode = "manage-teams" THEN "teamActions"
  ELSE "menu"

\* an AdminScreen step leaves the App, but for its store, and the other
\* components alone
AdminFrame ==
  /\ UNCHANGED <<secretsVars, storeVars>>
  /\ UNCHANGED <<now, running, screen, user, token, loginStatus, pollCount, conts,
                 nextId, polls, menuTimers, loadResult, last>>

\* the statements of createUser / createTeam that follow their await loadData()
AfterLoad(a, then) ==
  CASE then = "resetUser" -> [a EXCEPT !.newUserEmail = "", !.newUserName = "",
                                       !.newUserIsAdmin = FALSE]
    [] then = "resetTeam" -> [a EXCEPT !.newTeamName = ""]
    [] OTHER -> a

\* loadData up to its await, called with state a, requests pd and store st by
\* a caller that goes on with then: the two authenticatedFetch calls run
\* loadAuth one after the other; refused, loadData ends at once
loadData(a, pd, st, then) ==
  LET first == loadAuth(st, now)
      second == loadAuth(first.store, now)
  IN  IF first.ret.token = Null \/ second.ret.token = Null
      THEN [adm |-> AfterLoad([a EXCEPT !.error = "Failed to load data",
                                        !.loading = FALSE], then),
            pend |-> pd, store |-> second.store]
      ELSE [adm |-> [a EXCEPT !.loading = TRUE],
            pend |-> [pd EXCEPT !.loads[then] = @ + 1], store |-> second.store]

\* handleSelect of the App, item "admin", and the mount effect of AdminScreen
MountAdmin ==
  /\ running
  /\ screen = "menu"
  /\ user \in AdminUsers
  /\ screen' = "admin"
  /\ LET r == loadData(AdminInitialState, NoAdminRequests, store, "none")
     IN  adm' = r.adm /\ admPend' = r.pend /\ store' = r.store
  /\ admPosted' = NoUserPost
  /\ UNCHANGED <<secretsVars, storeVars>>
  /\ UNCHANGED <<now, running, user, token, loginStatus, pollCount, conts,
                 nextId, polls, menuTimers, loadResult, last>>

\* admin menu, item "back": onBack(); the screen unmounts
AdminBack ==
  /\ AdminMounted
  /\ AdminRendered(adm) = "menu"
  /\ screen' = "menu"
  /\ adm' = AdminInitialState
  /\ admPend' = NoAdminRequests
  /\ admPosted' = NoUserPost
  /\ UNCHANGED <<secretsVars, storeVars>>
  /\ UNCHANGED <<now, store, running, user, token, loginStatus, pollCount, conts,
                 nextId, polls, menuTimers, loadResult, last>>

\* admin menu, the items that set a mode
AdminSelectMenu(item) ==
  /\ AdminMounted
  /\ AdminRendered(adm) = "menu"
  /\ adm' = CASE item = "create-user" ->
                   [adm EXCEPT !.message = "", !.error = "", !.mode = "create-user",
                               !.step = 0, !.newUserEmail = "", !.newUserName = "",
                               !.newUserIsAdmin = FALSE]
              [] item = "create-team" ->
                   [adm EXCEPT !.message = "", !.error = "", !.mode = "create-team",
                               !.newTeamName = ""]
              [] item = "manage-users" ->
                   [adm EXCEPT !.message = "", !.error = "", !.mode = "manage-users",
                               !.selectedUser = NoUser]
              [] item = "manage-teams" ->
                   [adm EXCEPT !.message = "", !.error = "", !.mode = "manage-teams",
                               !.selectedTeam = NoTeam]
  /\ admPosted' = NoUserPost
  /\ UNCHANGED <<admPend, store>>
  /\ AdminFrame

\* create-user step 1, TextInput onChange
TypeEmail(v) ==
  /\ AdminMounted
  /\ AdminRendered(adm) = "email"
  /\ adm' = [adm EXCEPT !.newUserEmail = v]
  /\ admPosted' = NoUserPost
  /\ UNCHANGED <<admPend, store>>
  /\ AdminFrame

\* create-user step 1, TextInput onSubmit
SubmitEmail ==
  /\ AdminMounted
  /\ AdminRendered(adm) = "email"
  /\ adm' = IF adm.newUserEmail /= ""
            THEN [adm EXCEPT !.step = 1, !.error = ""]
            ELSE [adm EXCEPT !.error = "Email is required"]
  /\ admPosted' = NoUserPost
  /\ UNCHANGED <<admPend, store>>
  /\ AdminFrame

\* create-user step 2, TextInput onChange
TypeUserName(v) ==
  /\ AdminMounted
  /\ AdminRendered(adm) = "name"
  /\ adm' = [adm EXCEPT !.newUserName = v]
  /\ admPosted' = NoUserPost
  /\ UNCHANGED <<admPend, store>>
  /\ AdminFrame

\* create-user step 2, TextInput onSubmit
SubmitUserName ==
  /\ AdminMounted
  /\ AdminRendered(adm) = "name"
  /\ adm' = IF adm.newUserName /= ""
            THEN [adm EXCEPT !.step = 2, !.error = ""]
            ELSE [adm EXCEPT !.error = "Name is required"]
  /\ admPosted' = NoUserPost
  /\ UNCHANGED <<admPend, store>>
  /\ AdminFrame

\* the query string createUser builds when it runs in the render that holds
\* state a
createUser(a) ==
  [email |-> a.newUserEmail, name |-> a.newUserName, is_admin |-> a.newUserIsAdmin]

\* create-user step 3, SelectInput onSelect: setNewUserIsAdmin(...), then
\* createUser() of the render the handler belongs to
SelectRole(item) ==
  /\ AdminMounted
  /\ AdminRendered(adm) = "role"
  /\ AdminPending < MaxAdminPending
  /\ LET auth == loadAuth(store, now)
         selected == [adm EXCEPT !.newUserIsAdmin = (item = "admin")]
         query == createUser(adm)
     IN  /\ store' = auth.store
         /\ IF auth.ret.token = Null
            THEN /\ adm' = [selected EXCEPT !.error = "Failed to create user"]
                 /\ admPend' = admPend
                 /\ admPosted' = NoUserPost
            ELSE /\ adm' = selected
                 /\ admPend' = [admPend EXCEPT !.userCreates = @ + 1]
                 /\ admPosted' = [sent |-> TRUE, email |-> query.email,
                                  name |-> query.name, is_admin |-> query.is_admin,
                                  role |-> item]
  /\ AdminFrame

\* the POST /admin/users answered 2xx
CreateUserOk ==
  /\ AdminMounted
  /\ admPend.userCreates > 0
  /\ LET r == loadData([adm EXCEPT !.message = "User created successfully!",
                                   !.mode = "menu"],
                       [admPend EXCEPT !.userCreates = @ - 1], store, "resetUser")
     IN  adm' = r.adm /\ admPend' = r.pend /\ store' = r.store
  /\ admPosted' = NoUserPost
  /\ AdminFrame

\* the POST /admin/users answered non-2xx or threw
CreateUserFails ==
  /\ AdminMounted
  /\ admPend.userCreates > 0
  /\ adm' = [adm EXCEPT !.error = "Failed to create user"]
  /\ admPend' = [admPend EXCEPT !.userCreates = @ - 1]
  /\ admPosted' = NoUserPost
  /\ UNCHANGED store
  /\ AdminFrame

\* create-team, TextInput onChange
TypeTeamName(v) ==
  /\ AdminMounted
  /\ AdminRendered(adm) = "create-team"
  /\ adm' = [adm EXCEPT !.newTeamName = v]
  /\ admPosted' = NoUserPost
  /\ UNCHANGED <<admPend, store>>
  /\ AdminFrame

\* create-team, TextInput onSubmit: createTeam() when a name was typed
SubmitTeamName ==
  /\ AdminMounted
  /\ AdminRendered(adm) = "create-team"
  /\ AdminPending < MaxAdminPending
  /\ IF adm.newTeamName /= ""
     THEN LET auth == loadAuth(store, now)
          IN  /\ store' = auth.store
              /\ IF auth.ret.token = Null
                 THEN /\ adm' = [adm EXCEPT !.error = "Failed to create team"]
                      /\ admPend' = admPend
                 ELSE /\ adm' = adm
                      /\ admPend' = [admPend EXCEPT !.teamCreates = @ + 1]
     ELSE /\ adm' = [adm EXCEPT !.error = "Team name is required"]
          /\ UNCHANGED <<admPend, store>>
  /\ admPosted' = NoUserPost
  /\ AdminFrame

\* the POST /teams answered 2xx
CreateTeamOk ==
  /\ AdminMounted
  /\ admPend.teamCreates > 0
  /\ LET r == loadData([adm EXCEPT !.message = "Team created successfully!",
                                   !.mode = "menu"],
                       [admPend EXCEPT !.teamCreates = @ - 1], store, "resetTeam")
     IN  adm' = r.adm /\ admPend' = r.pend /\ store' = r.store
  /\ admPosted' = NoUserPost
  /\ AdminFrame

\* the POST /teams answered non-2xx or threw
CreateTeamFails ==
  /\ AdminMounted
  /\ admPend.teamCreates > 0
  /\ adm' = [adm EXCEPT !.error = "Failed to create team"]
  /\ admPend' = [admPend EXCEPT !.teamCreates = @ - 1]
  /\ admPosted' = NoUserPost
  /\ UNCHANGED store
  /\ AdminFrame

\* both requests of a loadData answered 2xx; its caller goes on
LoadOk(then, us, ts) ==
  /\ AdminMounted
  /\ admPend.loads[then] > 0
  /\ adm' = AfterLoad([adm EXCEPT !.users = us, !.teams = ts, !.loading = FALSE], then)
  /\ admPend' = [admPend EXCEPT !.loads[then] = @ - 1]
  /\ admPosted' = NoUserPost
  /\ UNCHANGED store
  /\ AdminFrame

\* a request of a loadData answered non-2xx or threw; its caller goes on
LoadFails(then) ==
  /\ AdminMounted
  /\ admPend.loads[then] > 0
  /\ adm' = AfterLoad([adm EXCEPT !.error = "Failed to load data", !.loading = FALSE],
                      then)
  /\ admPend' = [admPend EXCEPT !.loads[then] = @ - 1]
  /\ admPosted' = NoUserPost
  /\ UNCHANGED store
  /\ AdminFrame

\* manage-users list: item i of the users, or 0 for "back"
SelectUser(i) ==
  /\ AdminMounted
  /\ AdminRendered(adm) = "users"
  /\ i \in 0..Len(adm.users)
  /\ adm' = IF i = 0
            THEN [adm EXCEPT !.message = "", !.error = "", !.mode = "menu"]
            ELSE [adm EXCEPT !.message = "", !.error = "", !.selectedUser = adm.users[i]]
  /\ admPosted' = NoUserPost
  /\ UNCHANGED <<admPend, store>>
  /\ AdminFrame

\* the actions of the selected user: back, promote (offered for a user who is
\* not admin), delete
SelectUserAction(item) ==
  /\ AdminMounted
  /\ AdminRendered(adm) = "userActions"
  /\ item = "promote" => ~adm.selectedUser.is_admin
  /\ item /= "back" => AdminPending < MaxAdminPending
  /\ LET auth == loadAuth(store, now)
         cleared == [adm EXCEPT !.message = "", !.error = ""]
     IN  CASE item = "back" ->
                /\ adm' = [cleared EXCEPT !.selectedUser = NoUser]
                /\ UNCHANGED <<admPend, store>>
           [] item = "promote" ->
                /\ store' = auth.store
                /\ IF auth.ret.token = Null
                   THEN /\ adm' = [cleared EXCEPT !.selectedUser = NoUser,
                                                  !.error = "Failed to promote user"]
                        /\ admPend' = admPend
                   ELSE /\ adm' = [cleared EXCEPT !.selectedUser = NoUser]
                        /\ admPend' = [admPend EXCEPT !.promotes = @ + 1]
           [] item = "delete" ->
                /\ store' = auth.store
                /\ IF auth.ret.token = Null
                   THEN /\ adm' = [cleared EXCEPT !.error = "Failed to delete user"]
                        /\ admPend' = admPend
                   ELSE /\ adm' = cleared
                        /\ admPend' = [admPend EXCEPT !.userDeletes = @ + 1]
  /\ admPosted' = NoUserPost
  /\ AdminFrame

\* the PUT /admin/users/{id}/promote answered 2xx
PromoteOk ==
  /\ AdminMounted
  /\ admPend.promotes > 0
  /\ LET r == loadData([adm EXCEPT !.message = "User promoted to admin!"],
                       [admPend EXCEPT !.promotes = @ - 1], store, "none")
     IN  adm' = r.adm /\ admPend' = r.pend /\ store' = r.store
  /\ admPosted' = NoUserPost
  /\ AdminFrame

\* the PUT answered non-2xx or threw
PromoteFails ==
  /\ AdminMounted
  /\ admPend.promotes > 0
  /\ adm' = [adm EXCEPT !.error = "Failed to promote user"]
  /\ admPend' = [admPend EXCEPT !.promotes = @ - 1]
  /\ admPosted' = NoUserPost
  /\ UNCHANGED store
  /\ AdminFrame

\* the DELETE /admin/users/{id} answered 2xx
DeleteUserOk ==
  /\ AdminMounted
  /\ admPend.userDeletes > 0
  /\ LET r == loadData([adm EXCEPT !.message = "User deleted!",
                                   !.selectedUser = NoUser, !.mode = "manage-users"],
                       [admPend EXCEPT !.userDeletes = @ - 1], store, "none")
     IN  adm' = r.adm /\ admPend' = r.pend /\ store' = r.store
  /\ admPosted' = NoUserPost
  /\ AdminFrame

\* the DELETE /admin/users/{id} answered non-2xx or threw
DeleteUserFails ==
  /\ AdminMounted
  /\ admPend.userDeletes > 0
  /\ adm' = [adm EXCEPT !.error = "Failed to delete user"]
  /\ admPend' = [admPend EXCEPT !.userDeletes = @ - 1]
  /\ admPosted' = NoUserPost
  /\ UNCHANGED store
  /\ AdminFrame

\* manage-teams list: item i of the teams, or 0 for "back"
SelectTeam(i) ==
  /\ AdminMounted
  /\ AdminRendered(adm) = "teams"
  /\ i \in 0..Len(adm.teams)
  /\ adm' = IF i = 0
            THEN [adm EXCEPT !.message = "", !.error = "", !.mode = "menu"]
            ELSE [adm EXCEPT !.message = "", !.error = "", !.selectedTeam = adm.teams[i]]
  /\ admPosted' = NoUserPost
  /\ UNCHANGED <<admPend, store>>
  /\ AdminFrame

\* the actions of the selected team: back, delete
SelectTeamAction(item) ==
  /\ AdminMounted
  /\ AdminRendered(adm) = "teamActions"
  /\ item /= "back" => AdminPending < MaxAdminPending
  /\ LET auth == loadAuth(store, now)
         cleared == [adm EXCEPT !.message = "", !.error = ""]
     IN  CASE item = "back" ->
                /\ adm' = [cleared EXCEPT !.selectedTeam = NoTeam]
                /\ UNCHANGED <<admPend, store>>
           [] item = "delete" ->
                /\ store' = auth.store
                /\ IF auth.ret.token = Null
                   THEN /\ adm' = [cleared EXCEPT !.error = "Failed to delete team"]
                        /\ admPend' = admPend
                   ELSE /\ adm' = cleared
                        /\ admPend' = [admPend EXCEPT !.teamDeletes = @ + 1]
  /\ admPosted' = NoUserPost
  /\ AdminFrame

\* the DELETE /admin/teams/{id} answered 2xx
DeleteTeamOk ==
  /\ AdminMounted
  /\ admPend.teamDeletes > 0
  /\ LET r == loadData([adm EXCEPT !.message = "Team deleted!",
                                   !.selectedTeam = NoTeam, !.mode = "manage-teams"],
                       [admPend EXCEPT !.teamDeletes = @ - 1], store, "none")
     IN  adm' = r.adm /\ admPend' = r.pend /\ store' = r.store
  /\ admPosted' = NoUserPost
  /\ AdminFrame

\* the DELETE /admin/teams/{id} answered non-2xx or threw
DeleteTeamFails ==
  /\ AdminMounted
  /\ admPend.teamDeletes > 0
  /\ adm' = [adm EXCEPT !.error = "Failed to delete team"]
  /\ admPend' = [admPend EXCEPT !.teamDeletes = @ - 1]
  /\ admPosted' = NoUserPost
  /\ UNCHANGED store
  /\ AdminFrame

\* a started App on its menu that holds the Credential of an admin, over the
\* store that Credential was loaded from or over a store emptied since
AdminInit ==
  /\ Unmounted
  /\ AllIdle
  /\ AdminUnmounted
  /\ now = StartMs
  /\ running = TRUE
  /\ screen = "menu"
  /\ user = "bob"
  /\ token = "tExp4"
  /\ store \in {[token |-> token, user |-> user], Absent}
  /\ loginStatus = "idle"
  /\ pollCount = 0
  /\ conts = {}
  /\ nextId = 1
  /\ polls = [i \in CliTokens |-> 0]
  /\ menuTimers = 0
  /\ loadResult = store
  /\ last = Event("startup", 0, Absent)

AdminNext ==
  \/ MountAdmin
  \/ AdminBack
  \/ \E item \in {"create-user", "create-team", "manage-users", "manage-teams"} :
       AdminSelectMenu(item)
  \/ \E v \in Emails : TypeEmail(v)
  \/ SubmitEmail
  \/ \E v \in Names : TypeUserName(v)
  \/ SubmitUserName
  \/ \E item \in {"regular", "admin"} : SelectRole(item)
  \/ CreateUserOk
  \/ CreateUserFails
  \/ \E v \in TeamNames : TypeTeamName(v)
  \/ SubmitTeamName
  \/ CreateTeamOk
  \/ CreateTeamFails
  \/ \E then \in Followups, us \in UsersBodies, ts \in TeamsLists : LoadOk(then, us, ts)
  \/ \E then \in Followups : LoadFails(then)
  \/ \E i \in 0..2 : SelectUser(i)
  \/ \E item \in {"back", "promote", "delete"} : SelectUserAction(item)
  \/ PromoteOk
  \/ PromoteFails
  \/ DeleteUserOk
  \/ DeleteUserFails
  \/ \E i \in 0..1 : SelectTeam(i)
  \/ \E item \in {"back", "delete"} : SelectTeamAction(item)
  \/ DeleteTeamOk
  \/ DeleteTeamFails

AdminSpec == AdminInit /\ [][AdminNext]_vars

(***************************************************************************)
(* Properties.                                                             *)
(***************************************************************************)
\* a step in which loadAuth runs
LoadStep == Startup \/ authenticatedFetch

\* the store holds a Credential: token and user are both set
Complete(st) == st.token /= Null /\ st.user /= Null

\* the token carries an expiry claim / one before, one after the time nowMs
HasExpClaim(t) == ExpOf(parseJWT(t)).has
ExpiredAt(t, nowMs) == HasExpClaim(t) /\ ExpOf(parseJWT(t)).val * MsPerSecond < nowMs
FutureAt(t, nowMs) == HasExpClaim(t) /\ ExpOf(parseJWT(t)).val * MsPerSecond > nowMs

\* the continuations of the chain of cliToken id
ContsOf(id) == {c \in conts : c.cliToken = id}

\* C1: a loadAuth that finds a Credential whose expiry claim is before the
\* current time returns absent and leaves the store with neither token nor user.
C1_ExpiredIsPurged ==
  [][(LoadStep /\ Complete(store) /\ ExpiredAt(store.token, now))
       => (loadResult' = Absent /\ store' = Absent)]_vars

\* the same for the expiry claims other than 0: what the code does keep of C1
ExpiredNonZeroIsPurged ==
  [][(LoadStep /\ Complete(store) /\ ExpiredAt(store.token, now)
        /\ ExpOf(parseJWT(store.token)).val /= 0)
       => (loadResult' = Absent /\ store' = Absent)]_vars

C4_EpochTokenPurged ==
  (running /\ last.op = "startup") => store.token /= "tExp0"

\* what the code does with that token: absent is returned, the store keeps it
EpochTokenKept ==
  [][(LoadStep /\ Complete(store) /\ store.token = "tExp0")
       => (loadResult' = Absent /\ store' = store)]_vars

\* C5: an attempt sends at most 60 exchange requests, the k-th of them with
\* attempts = k - 1; when every one was answered non-2xx, the attempt ends at
\* the ceiling with exactly 60 requests sent, status error and nothing pending.
C5_SixtyPolls ==
  /\ \A id \in CliTokens : polls[id] <= 60
  /\ \A c \in conts :
       /\ c.kind = "fetch" => polls[c.cliToken] = c.attempts + 1
       /\ c.kind = "timer" => polls[c.cliToken] = c.attempts
  /\ last.op = "ceiling" =>
       /\ polls[last.cliToken] = 60
       /\ loginStatus = "error"
       /\ ContsOf(last.cliToken) = {}

\* an attempt has ended at the ceiling
C5_Witness == last.op = "ceiling" /\ polls[last.cliToken] = 60

OneChain ==
  /\ Cardinality(conts) <= 1
  /\ conts /= {} => (screen = "login" /\ loginStatus \in {"opening", "polling"})
  /\ \A c \in conts : c.cliToken = nextId - 1

C9_TransportErrorFails ==
  /\ [](last.op = "exchangeThrew" =>
          /\ loginStatus = "error"
          /\ ContsOf(last.cliToken) = {})
  /\ [][(last'.op = "exchangeThrew" /\ last' /= last) => store' = store]_vars
  /\ \A id \in CliTokens :
       []((last.op = "exchangeThrew" /\ last.cliToken = id)
            => [](~(last.op = "poll" /\ last.cliToken = id)))

\* an exchange request threw after earlier ones were answered non-2xx
C9_Witness ==
  /\ last.op = "exchangeThrew"
  /\ polls[last.cliToken] = 2
  /\ loginStatus = "error"

\* C10: from Failed, with a cliToken left to draw, a new attempt is Opening at
\* some later time, unless the process is ended first.
C10_RetryFromFailed ==
  (running /\ loginStatus = "error" /\ nextId <= MaxLogins)
    ~> (loginStatus = "opening" \/ ~running)

\* what the code does: while the process lives, Failed is never left
FailedIsFinal ==
  [][(running /\ loginStatus = "error" /\ running')
       => (loginStatus' = "error" /\ screen' = "login")]_vars

\* the attempt of cliToken id has finished: success, ceiling, or failure
Finished(id) ==
  /\ last.cliToken = id
  /\ last.op \in {"exchangeOk", "exchangeOkSaveThrew", "ceiling", "openFailed",
                 "exchangeThrew"}

\* C11: every start draws a cliToken that no earlier start of the installation
\* drew; the requests pending or sent carry a drawn cliToken; once an attempt
\* has finished, no later start or exchange request carries its cliToken.
C11_FreshCliToken ==
  /\ [][SelectLogin =>
         /\ last'.op = "start"
         /\ last'.cliToken >= nextId
         /\ nextId' > last'.cliToken]_vars
  /\ [](\A c \in conts : c.cliToken < nextId)
  /\ \A id \in CliTokens :
       [](Finished(id)
            => [](~(last.op \in {"start", "poll"} /\ last.cliToken = id)))

\* a second attempt sends an exchange request, with the second cliToken
C11_Witness ==
  /\ last.op = "poll"
  /\ last.cliToken = 2
  /\ polls[2] = 1
  /\ polls[1] = 0

\* C12: the store holds both the token and the user, or neither of them.
C12_TokenAndUserTogether ==
  (store.token = Null) <=> (store.user = Null)

\* what the code keeps of C12: outside its two-write operations failing or
\* being interrupted, handlers leave a store that held both or neither that way
WholeButForInterruption ==
  [][(((store.token = Null) <=> (store.user = Null))
        /\ last'.op \notin {"exchangeOkSaveThrew", "killedInSave", "killedInClear"})
       => ((store'.token = Null) <=> (store'.user = Null))]_vars

\* C13: once a 2xx exchange response has been handled, the status is success
\* or the App holds the token of that response only if the store holds the
\* token and user of that response.
C13_SavedBeforeSignalled ==
  (/\ last.op \in {"exchangeOk", "exchangeOkSaveThrew"}
   /\ (loginStatus = "success" \/ token = last.token))
    => store = [token |-> last.token, user |-> last.user]

\* what the code does when saveAuth throws: the App holds the user and token
\* of the response, the status is error, the store does not hold that pair
SignalledBeforeSaved ==
  last.op = "exchangeOkSaveThrew" =>
    /\ token = last.token
    /\ user = last.user
    /\ loginStatus = "error"
    /\ store /= [token |-> last.token, user |-> last.user]

(***************************************************************************)
(* Properties of the SecretsScreen wizard.                                 *)
(***************************************************************************)
\* the team fetch failed, or answered with no team
NoTeamsReturned ==
  \/ teamsFetch.state = "failed"
  \/ teamsFetch.state = "ok" /\ teamsFetch.teams = <<>>

\* C14: a POST /secrets sent by choosing "private" carries no acl entry.
C14_PrivateSendsNoEntry ==
  posted.scope = "private" => posted.acl_entries = <<>>

\* what the code sends on "private": the entries of the sharing choice as it
\* was before the selection
PrivateSendsEarlierChoice ==
  [][SelectSharing("private") =>
       posted'.acl_entries = AclEntries(ss)]_vars

\* C15: a POST /secrets sent after choosing "team" carries one entry per team
\* the team fetch has returned, in that order, each with subject_type team,
\* the id of its team and can_read true, and no other entry.
C15_TeamSendsEntryPerTeam ==
  posted.scope = "team" =>
    /\ Len(posted.acl_entries) = Len(teamsFetch.teams)
    /\ \A i \in 1..Len(posted.acl_entries) :
         /\ posted.acl_entries[i].subject_type = "team"
         /\ posted.acl_entries[i].subject_id = teamsFetch.teams[i]
         /\ posted.acl_entries[i].can_read = TRUE

\* "team" was chosen with two teams fetched
C15_Witness ==
  /\ posted.scope = "team"
  /\ teamsFetch.teams = <<7, 9>>
  /\ Len(posted.acl_entries) = 2

\* C16: the sharing step lists "team" whatever the team fetch gave; when the
\* fetch failed or returned no team, choosing "team" and a permission sends a
\* POST /secrets with a non-empty key, a non-empty value and no acl entry, and
\* sets no error.
C16_TeamWithoutTeams ==
  /\ Rendered(ss) = "sharing" => "team" \in sharingItems(ss.userTeams)
  /\ (chosen.scope = "team" /\ chosen.perm /= "none") => runPosts >= 1
  /\ (posted.scope = "team" /\ NoTeamsReturned) =>
       /\ posted.key /= ""
       /\ posted.value /= ""
       /\ posted.acl_entries = <<>>
       /\ ss.error = Null

\* "team" was chosen after the team fetch had failed
C16_Witness ==
  /\ posted.scope = "team"
  /\ teamsFetch.state = "failed"
  /\ posted.acl_entries = <<>>
  /\ posted.key = "API_KEY"

\* C17: a POST /secrets sent after choosing "org" carries exactly one entry,
\* with subject_type org, subject_id null and can_read true.
C17_OrgSendsOneEntry ==
  posted.scope = "org" =>
    /\ Len(posted.acl_entries) = 1
    /\ posted.acl_entries[1].subject_type = "org"
    /\ posted.acl_entries[1].subject_id = NullId
    /\ posted.acl_entries[1].can_read = TRUE

\* "org" was chosen with two teams fetched
C17_Witness ==
  /\ posted.scope = "org"
  /\ ss.userTeams = <<7, 9>>
  /\ Len(posted.acl_entries) = 1

\* C18: every entry of a POST /secrets sent by choosing "write" has can_write
\* true, every entry of one sent by choosing "read" has can_write false.
C18_PermissionSetsCanWrite ==
  /\ posted.perm = "write" =>
       \A i \in 1..Len(posted.acl_entries) : posted.acl_entries[i].can_write = TRUE
  /\ posted.perm = "read" =>
       \A i \in 1..Len(posted.acl_entries) : posted.acl_entries[i].can_write = FALSE

\* what the code sends: can_write is grantWrite as it was before the choice
CanWriteIsStale ==
  [][\A item \in {"read", "write"} :
       SelectPermission(item) =>
         \A i \in 1..Len(posted'.acl_entries) :
           posted'.acl_entries[i].can_write = ss.grantWrite]_vars

\* C19: a non-2xx answer to the POST /secrets sets the error and leaves key,
\* value, sharing choice and permission at their initial values and the wizard
\* at its key step.
C19_RejectedResetsDraft ==
  [][PostRejected =>
       /\ ss'.error /= Null
       /\ ss'.newKey = ""
       /\ ss'.newValue = ""
       /\ ss'.sharingChoice = "private"
       /\ ss'.grantWrite = FALSE
       /\ ss'.createStep = "key"]_vars

\* what the code does: the answer sets the error and nothing else
RejectedKeepsDraft ==
  [][PostRejected =>
       ss' = [ss EXCEPT !.error = "[ERROR] Unable to create secret"]]_vars

\* C20: a wizard run sends at most one POST /secrets.
C20_OnePostPerRun ==
  runPosts <= 1

\* C21: every POST /secrets carries a non-empty key and a non-empty value; the
\* wizard is past its key step only with a non-empty key, and past its value
\* step only with a non-empty key and a non-empty value.
C21_KeyAndValueNonEmpty ==
  /\ posted /= NoPost => (posted.key /= "" /\ posted.value /= "")
  /\ ss.createStep \in {"value", "sharing", "permissions"} => ss.newKey /= ""
  /\ ss.createStep \in {"sharing", "permissions"} => ss.newValue /= ""

\* a first POST of a run was sent from the sharing step
C21_Witness ==
  /\ posted.scope = "private"
  /\ posted.key = "API_KEY"
  /\ posted.value = "s3cret"
  /\ runPosts = 1

\* C22: the status the App shows after the ceiling was reached is error (C5),
\* and the one it shows after an exchange request threw is another one, so that
\* a timeout and a network failure can be told apart.
C22_FailureCarriesCause ==
  /\ last.op = "ceiling" => loginStatus = "error"
  /\ last.op = "exchangeThrew" => loginStatus /= "error"

\* what the code does: the ceiling, a transport error, a failed open() and a
\* failed save all end in the one status error, on the login screen
FailuresLookAlike ==
  last.op \in {"ceiling", "exchangeThrew", "openFailed", "exchangeOkSaveThrew"}
    => (loginStatus = "error" /\ screen = "login")

\* C23: clearAuth leaves the store with neither token nor user, whatever it
\* held; a second clearAuth changes nothing, and neither does clearAuth on the
\* empty store.  A completed logout leaves what clearAuth leaves.
C23_ClearAuthIdempotent ==
  /\ [](clearAuth(store) = Absent)
  /\ [](clearAuth(clearAuth(store)) = clearAuth(store))
  /\ [](store = Absent => clearAuth(store) = store)
  /\ [][SelectLogout => (store' = clearAuth(store) /\ clearAuth(store') = store')]_vars

\* a logout has run clearAuth, the latest loadAuth before it having returned
\* absent
C23_Witness ==
  /\ last.op = "logout"
  /\ store = Absent
  /\ loadResult = Absent
  /\ now > StartMs

\* C24: saveAuth(t, u) leaves the store holding exactly t and u, whatever it
\* held; the same saveAuth again changes nothing.  The save after a 2xx
\* exchange response leaves what saveAuth leaves.
C24_SaveAuthOverwrites ==
  /\ [](\A cred \in ServerCreds :
          /\ saveAuth(store, cred.token, cred.user) = cred
          /\ saveAuth(saveAuth(store, cred.token, cred.user), cred.token, cred.user)
               = saveAuth(store, cred.token, cred.user))
  /\ [][\A c \in conts, cred \in ServerCreds :
          ExchangeOk(c, cred) => store' = cred]_vars

\* the first login of the installation saved bob's Credential
C24_Witness ==
  /\ last.op = "exchangeOk"
  /\ store = [token |-> "tNoExp", user |-> "bob"]
  /\ nextId = 2
  /\ now = StartMs

\* C25: starting an attempt, the answer of open(), a poll being sent, the
\* ceiling, a non-2xx exchange response and a transport error leave the store
\* as it was.
C25_OnlySaveWritesStore ==
  [][(\/ SelectLogin
      \/ \E c \in conts : \/ OpenResolves(c)
                          \/ OpenRejects(c)
                          \/ PollTimerFires(c)
                          \/ ExchangeNotReady(c)
                          \/ ExchangeThrows(c))
       => store' = store]_vars

\* a second non-2xx answer came in while a Credential is stored
C25_Witness ==
  /\ last.op = "exchangeNotReady"
  /\ pollCount = 2
  /\ Complete(store)

\* the memory of the App and the store hold no token and no user
SessionAbsent == token = Null /\ user = Null /\ store = Absent

\* C28: a logout leaves token, user and the stored Credential absent, the login
\* status idle and the poll count 0, with no login attempt still in flight; the
\* absence ends only with the handling of a 2xx exchange response, which
\* therefore belongs to an attempt started after the logout.
C28_LogoutClearsSession ==
  /\ [](last.op = "logout"
          => (SessionAbsent /\ loginStatus = "idle" /\ pollCount = 0 /\ conts = {}))
  /\ [][(SessionAbsent /\ ~SessionAbsent')
          => last'.op \in {"exchangeOk", "exchangeOkSaveThrew", "killedInSave"}]_vars

\* the menu is back after a logout that emptied a store, and the clock has moved
C28_Witness ==
  /\ last.op = "logout"
  /\ screen = "menu"
  /\ menuTimers = 0
  /\ SessionAbsent
  /\ now > StartMs

C30_OneNextPoll ==
  /\ [][\A c \in conts : ExchangeNotReady(c) =>
          /\ conts' \ conts = {[kind |-> "timer", cliToken |-> c.cliToken,
                                attempts |-> c.attempts + 1]}
          /\ conts \ conts' = {c}
          /\ pollCount' = c.attempts + 1]_vars
  /\ [][\A c \in conts : \A d \in conts' :
          d.cliToken = c.cliToken => d.attempts >= c.attempts]_vars

\* the second not-ready answer of an attempt has scheduled its third poll
C30_Witness ==
  /\ last.op = "exchangeNotReady"
  /\ conts = {[kind |-> "timer", cliToken |-> last.cliToken, attempts |-> 2]}
  /\ polls[last.cliToken] = 2

\* C26: what a loadAuth returns while another process saves or clears is
\* absent or a Credential some saveAuth was called with.
C26_LoadNeverTorn ==
  \A i \in Instances : inst[i].ret = Absent \/ inst[i].ret \in ServerCreds

\* C27: once both processes have completed a saveAuth as their latest call,
\* the store holds a Credential some saveAuth was called with.
C27_ConcurrentSavesWhole ==
  (\A i \in Instances : inst[i].pc = "idle" /\ inst[i].done = "saveAuth")
    => store \in ServerCreds

\* C31: a start opens the URL of one cliToken; every exchange request is sent
\* by a continuation of that start and carries its cliToken; a continuation
\* that a step adds, other than the open() of a start, takes the place of one
\* with the same cliToken.
C31_PollCarriesStartToken ==
  /\ [][SelectLogin =>
          /\ last'.op = "start"
          /\ conts' \ conts = {[kind |-> "open", cliToken |-> last'.cliToken,
                                attempts |-> 0]}]_vars
  /\ [][\A c \in conts :
          ((OpenResolves(c) \/ PollTimerFires(c)) /\ last'.op = "poll") =>
             /\ last'.cliToken = c.cliToken
             /\ conts' \ conts = {[kind |-> "fetch", cliToken |-> c.cliToken,
                                   attempts |-> c.attempts]}]_vars
  /\ [][\A d \in conts' \ conts :
          d.kind /= "open" => \E c \in conts \ conts' : c.cliToken = d.cliToken]_vars

\* the second attempt sends its second exchange request
C31_Witness ==
  /\ last.op = "poll"
  /\ last.cliToken = 2
  /\ polls[2] = 2
  /\ conts = {[kind |-> "fetch", cliToken |-> 2, attempts |-> 1]}

\* C32: an attempt that has a continuation pending reaches success or failure
\* (the ceiling, a failed open(), a transport error, a 2xx whose save threw) at
\* some later time, unless the process is ended first.
C32_AttemptEnds ==
  \A id \in CliTokens :
    (ContsOf(id) /= {})
      ~> ((Finished(id) /\ loginStatus \in {"success", "error"}) \/ ~running)

\* an attempt ran into the ceiling after 60 not-ready answers
C32_Witness ==
  /\ last.op = "ceiling"
  /\ pollCount = MaxAttempts
  /\ loginStatus = "error"
  /\ conts = {}

\* C33: an authenticatedFetch whose loadAuth returns no token sends nothing and
\* is refused; a request it sends carries the token its loadAuth returned.
C33_NoTokenNoRequest ==
  /\ [][authenticatedFetch =>
          LET auth == loadAuth(store, now)
          IN  /\ auth.ret.token = Null => last'.op = "fetchRefused"
              /\ last'.op = "fetch" => (last'.token = auth.ret.token /\ last'.token /= Null)]_vars
  /\ [](last.op = "fetch" => (last.token /= Null /\ last.token = loadResult.token))
  /\ [](last.op = "fetchRefused" => loadResult = Absent)

\* a fetch was refused at a time when the token once stored had expired
C33_Witness ==
  /\ last.op = "fetchRefused"
  /\ store = Absent
  /\ token = "tExp2"
  /\ now >= 2 * MsPerSecond

\* C34: whenever the App holds a user and a token, the store holds that token
\* and that user.
C34_MemoryMatchesStore ==
  (running /\ user /= Null /\ token /= Null)
    => store = [token |-> token, user |-> user]

\* C35: while the status is polling an attempt is under way, every exchange
\* request it sent but the one in flight was answered non-2xx, the poll count
\* is the number of those answers, and it lies in 0..60; a start and a logout
\* set it to 0.
C35_PollCountShown ==
  /\ [](loginStatus = "polling" =>
          /\ conts /= {}
          /\ pollCount \in 0..MaxAttempts
          /\ \A c \in conts :
               /\ pollCount = c.attempts
               /\ polls[c.cliToken] = c.attempts + (IF c.kind = "fetch" THEN 1 ELSE 0))
  /\ [][(SelectLogin \/ SelectLogout) => pollCount' = 0]_vars

\* the login screen shows attempt 60 of 60 while the last timer is pending
C35_Witness ==
  /\ loginStatus = "polling"
  /\ screen = "login"
  /\ pollCount = MaxAttempts
  /\ \E c \in conts : c.kind = "timer"

\* C36: Escape in create mode, at whichever step, leaves the list mode with
\* the key and the value empty, the step back at key, the scope private and
\* the permission read-only; it sends no POST and starts no request or timer.
C36_EscapeResetsWizard ==
  [][PressEscape =>
       /\ ss.mode = "create"
       /\ ss'.mode = "list"
       /\ ss'.newKey = ""
       /\ ss'.newValue = ""
       /\ ss'.createStep = "key"
       /\ ss'.sharingChoice = "private"
       /\ ss'.grantWrite = FALSE
       /\ posted' = NoPost
       /\ pend' = pend]_vars

\* the wizard stands at its permissions step with a key, a value and the team
\* scope entered and no POST sent in this run: here Escape is pressed
C36_Witness ==
  /\ Mounted
  /\ ss.mode = "create"
  /\ ss.createStep = "permissions"
  /\ ss.newKey = "API_KEY"
  /\ ss.newValue = "s3cret"
  /\ ss.sharingChoice = "team"
  /\ pend.posts = 0
  /\ runPosts = 0

\* C37: whenever secrets are listed, the selected index designates one of them.
C37_SelectedIndexInRange ==
  Len(ss.secrets) > 0 => (0 <= ss.selectedIndex /\ ss.selectedIndex < Len(ss.secrets))

\* what the code keeps: the index is never negative, and the arrow keys never
\* move it off the list they act on
SelectedIndexMovesInRange ==
  /\ [](ss.selectedIndex >= 0)
  /\ [][(PressUp \/ PressDown) => ss'.selectedIndex < Len(ss.secrets)]_vars

\* C38: a create-user request carries is_admin true exactly when the role
\* selected in the step that sent it is Admin User, and a non-empty email and
\* name.
C38_IsAdminAsSelected ==
  admPosted.sent =>
    /\ admPosted.is_admin = (admPosted.role = "admin")
    /\ admPosted.email /= ""
    /\ admPosted.name /= ""

\* what the code does: the request carries the is_admin of the render the
\* selection was made in, and a non-empty email and name
IsAdminIsStale ==
  /\ [](admPosted.sent => (admPosted.email /= "" /\ admPosted.name /= ""))
  /\ [][\A item \in {"regular", "admin"} :
          (SelectRole(item) /\ admPosted'.sent)
            => admPosted'.is_admin = adm.newUserIsAdmin]_vars

====
